---- MODULE Spec2Model ----
(***************************************************************************)
(* Model of the RPU calculator: mode normalisation and date arithmetic     *)
(* (core/date_logic.py) and the GIS benefit calculator (products/gis.py).  *)
(*                                                                         *)
(* Conventions                                                             *)
(*  - a date is a record [y, m, d] of the proleptic Gregorian calendar;    *)
(*  - a text is a sequence of one-character strings;                       *)
(*  - an Optional value is None (the empty sequence) or Some(v) (the       *)
(*    one-element sequence <<v>>);                                         *)
(*  - a float that the code obtains by division is kept as an exact        *)
(*    fraction [num, den] in lowest terms, den > 0 (rounding of IEEE       *)
(*    doubles is not modelled); amounts are whole numbers.                 *)
(***************************************************************************)
EXTENDS Integers, Sequences, FiniteSets, TLC

VARIABLES
    pc,         \* position of the run: which function has been applied
    mode_raw,   \* text handed to normalize_mode
    mode_norm,  \* result of normalize_mode
    months,     \* result of mode_months
    bi_date,    \* BI generation date handed to derive_rcd
    ptd,        \* premium-to-date entered by the user
    mode,       \* mode argument of derive_rcd
    rcd,        \* result of derive_rcd
    extracted,  \* ExtractedFields handed to calculate
    outputs,    \* ComputedOutputs returned by calculate
    handlers,   \* products/registry.py _HANDLERS
    pdf,        \* the uploaded file as the PDF libraries see it, page by page
    parsed,     \* ParsedPDF returned by read_pdf
    table_calls,\* pages on which read_pdf has called extract_tables
    detected,   \* result of detect_product
    today,      \* the clock: what date.today() returns
    runs,       \* ExtractedFields returned by the runs of extract so far
    kv,         \* the key/value map built by the last run of extract
    cases,      \* rows of the cases table
    event_log   \* rows of the event_log table

pipeVars == <<handlers, pdf, parsed, table_calls, detected, today, runs, kv, cases, event_log>>

vars == <<pc, mode_raw, mode_norm, months, bi_date, ptd, mode, rcd, extracted, outputs,
          handlers, pdf, parsed, table_calls, detected, today, runs, kv, cases, event_log>>

\* the upload pipeline has not been started
IdlePipe ==
    /\ handlers = << >>
    /\ pdf = << >>
    /\ parsed = << >>
    /\ table_calls = {}
    /\ detected = << >>
    /\ today = << >>
    /\ runs = << >>
    /\ kv = << >>
    /\ cases = << >>
    /\ event_log = << >>

\* Optional[T]
None == << >>
Some(v) == <<v>>
Val(o) == o[1]

Min(a, b) == IF a <= b THEN a ELSE b
Max(a, b) == IF a >= b THEN a ELSE b

(***************************************************************************)
(* Texts (str)                                                             *)
(***************************************************************************)
Lowers == <<"a","b","c","d","e","f","g","h","i","j","k","l","m",
            "n","o","p","q","r","s","t","u","v","w","x","y","z">>
Uppers == <<"A","B","C","D","E","F","G","H","I","J","K","L","M",
            "N","O","P","Q","R","S","T","U","V","W","X","Y","Z">>

IndexIn(c, alphabet) ==
    IF \E i \in 1..Len(alphabet) : alphabet[i] = c
    THEN CHOOSE i \in 1..Len(alphabet) : alphabet[i] = c
    ELSE 0

IsSpace(c) == c \in {" ", "\n", "\t"}

\* str.upper / str.lower on one character
UpperOf == [c \in { Lowers[i] : i \in 1..26 } |-> Uppers[IndexIn(c, Lowers)]]
LowerOf == [c \in { Uppers[i] : i \in 1..26 } |-> Lowers[IndexIn(c, Uppers)]]
UpperChar(c) == IF c \in DOMAIN UpperOf THEN UpperOf[c] ELSE c
LowerChar(c) == IF c \in DOMAIN LowerOf THEN LowerOf[c] ELSE c

IsAlpha(c) == c \in DOMAIN UpperOf \/ c \in DOMAIN LowerOf

\* str.upper()
Upper(s) == [i \in 1..Len(s) |-> UpperChar(s[i])]
\* str.lower()
Lower(s) == [i \in 1..Len(s) |-> LowerChar(s[i])]

\* str.title(): a letter is upper-cased when no letter precedes it, lower-cased otherwise
Title(s) ==
    [i \in 1..Len(s) |->
        IF i = 1 \/ ~IsAlpha(s[i - 1]) THEN UpperChar(s[i]) ELSE LowerChar(s[i])]

\* str.strip(): drop leading and trailing whitespace
Strip(s) ==
    IF \A i \in 1..Len(s) : IsSpace(s[i])
    THEN << >>
    ELSE LET first == CHOOSE i \in 1..Len(s) :
                          ~IsSpace(s[i]) /\ \A j \in 1..(i - 1) : IsSpace(s[j])
             last  == CHOOSE i \in 1..Len(s) :
                          ~IsSpace(s[i]) /\ \A j \in (i + 1)..Len(s) : IsSpace(s[j])
         IN  SubSeq(s, first, last)

\* the Python test `needle in s`
Contains(s, needle) ==
    \E i \in 0..(Len(s) - Len(needle)) :
        \A j \in 1..Len(needle) : s[i + j] = needle[j]

(***************************************************************************)
(* core/date_logic.py: modes                                               *)
(***************************************************************************)
T_ANNUAL      == <<"A","N","N","U","A","L">>
T_YEARLY      == <<"Y","E","A","R","L","Y">>
T_HALF_YEARLY == <<"H","A","L","F","-","Y","E","A","R","L","Y">>
T_HALF_YEARLY_SP == <<"H","A","L","F"," ","Y","E","A","R","L","Y">>
T_SEMI_ANNUAL == <<"S","E","M","I","-","A","N","N","U","A","L">>
T_SEMI_ANNUAL_SP == <<"S","E","M","I"," ","A","N","N","U","A","L">>
T_QUARTERLY   == <<"Q","U","A","R","T","E","R","L","Y">>
T_MONTHLY     == <<"M","O","N","T","H","L","Y">>

\* the canonical names normalize_mode returns
Annual     == <<"A","n","n","u","a","l">>
HalfYearly == <<"H","a","l","f","-","y","e","a","r","l","y">>
Quarterly  == <<"Q","u","a","r","t","e","r","l","y">>
Monthly    == <<"M","o","n","t","h","l","y">>

\* MODE_TO_MONTHS.get(key, 12)
MODE_TO_MONTHS(key) ==
    CASE key = T_ANNUAL         -> 12
      [] key = T_YEARLY         -> 12
      [] key = T_HALF_YEARLY    -> 6
      [] key = T_HALF_YEARLY_SP -> 6
      [] key = T_SEMI_ANNUAL    -> 6
      [] key = T_SEMI_ANNUAL_SP -> 6
      [] key = T_QUARTERLY      -> 3
      [] key = T_MONTHLY        -> 1
      [] OTHER                  -> 12

\* normalize_mode(mode_raw); the tests are tried in the order of the code
normalize_mode(raw) ==
    LET m == Upper(Strip(IF raw = None THEN << >> ELSE Val(raw)))
    IN  IF Contains(m, <<"A","N","N","U">>) \/ Contains(m, <<"Y","E","A","R">>)
        THEN Annual
        ELSE IF Contains(m, <<"H","A","L","F">>) \/ Contains(m, <<"S","E","M","I">>)
        THEN HalfYearly
        ELSE IF Contains(m, <<"Q","U","A","R","T">>)
        THEN Quarterly
        ELSE IF Contains(m, <<"M","O","N","T","H">>)
        THEN Monthly
        ELSE IF raw = None \/ Val(raw) = << >> THEN Annual ELSE Title(Strip(Val(raw)))

\* mode_months(mode_norm)
mode_months(norm) ==
    MODE_TO_MONTHS(Upper(Strip(norm)))

(***************************************************************************)
(* Dates (datetime.date, timedelta, dateutil.relativedelta)                *)
(***************************************************************************)
Date(y, m, d) == [y |-> y, m |-> m, d |-> d]

IsLeap(y) == (y % 4 = 0 /\ y % 100 # 0) \/ y % 400 = 0

DaysInMonth(y, m) ==
    IF m = 2 THEN (IF IsLeap(y) THEN 29 ELSE 28)
    ELSE IF m \in {4, 6, 9, 11} THEN 30 ELSE 31

\* date(y, m, d) raises ValueError unless this holds
IsValidDate(y, m, d) == m \in 1..12 /\ d >= 1 /\ d <= DaysInMonth(y, m)

\* date comparison
DateLT(a, b) ==
    \/ a.y < b.y
    \/ a.y = b.y /\ a.m < b.m
    \/ a.y = b.y /\ a.m = b.m /\ a.d < b.d
DateLE(a, b) == a = b \/ DateLT(a, b)

\* d + relativedelta(months=n), n of either sign: the month is moved and the
\* day is clamped to the last day of the target month
AddMonths(dt, n) ==
    LET total == dt.y * 12 + (dt.m - 1) + n
        yy    == total \div 12
        mm    == (total % 12) + 1
    IN  Date(yy, mm, Min(dt.d, DaysInMonth(yy, mm)))

\* date.toordinal() relative to 1 January of year 1
DaysBeforeYear(y) ==
    LET p == y - 1 IN p * 365 + (p \div 4) - (p \div 100) + (p \div 400)

RECURSIVE DaysBeforeMonth(_, _)
DaysBeforeMonth(y, m) ==
    IF m = 1 THEN 0 ELSE DaysBeforeMonth(y, m - 1) + DaysInMonth(y, m - 1)

ToOrdinal(dt) == DaysBeforeYear(dt.y) + DaysBeforeMonth(dt.y, dt.m) + dt.d

\* d + timedelta(days=n), n >= 0: the day count rolls over month and year ends
RECURSIVE AddDays(_, _)
AddDays(dt, n) ==
    LET room == DaysInMonth(dt.y, dt.m) - dt.d
    IN  IF n <= room
        THEN Date(dt.y, dt.m, dt.d + n)
        ELSE AddDays(IF dt.m = 12 THEN Date(dt.y + 1, 1, 1) ELSE Date(dt.y, dt.m + 1, 1),
                     n - room - 1)

(***************************************************************************)
(* core/date_logic.py: derive_rcd, add_grace                               *)
(***************************************************************************)
\* the while loop of derive_rcd: step back while the stepped date is >= bi
RECURSIVE StepBack(_, _, _)
StepBack(candidate, bi, n) ==
    IF DateLE(bi, AddMonths(candidate, -n))
    THEN StepBack(AddMonths(candidate, -n), bi, n)
    ELSE candidate

\* derive_rcd(bi_date, ptd, mode_norm)
derive_rcd(bi, p, norm) ==
    LET n         == mode_months(norm)
        candidate == StepBack(p, bi, n)
    IN  IF DateLT(candidate, bi) THEN AddMonths(candidate, n) ELSE candidate

\* add_grace with the 30 days taken as one calendar month (day clamped)
add_grace_ByMonth(p, grace_days) ==
    IF grace_days = 30 THEN AddMonths(p, 1) ELSE AddDays(p, grace_days)

\* add_grace(ptd, grace_days)
add_grace(p, grace_days) == AddDays(p, grace_days)

(***************************************************************************)
(* Mode texts: the payment-frequency words in their case, spacing and      *)
(* hyphenation variants                                                    *)
(***************************************************************************)
AnnualWords ==
    { <<"a","n","n","u","a","l">>, <<"y","e","a","r","l","y">>,
      <<"a","n","n","u","a","l","l","y">> }
HalfYearlyWords ==
    { <<"h","a","l","f","-","y","e","a","r","l","y">>,
      <<"h","a","l","f"," ","y","e","a","r","l","y">>,
      <<"h","a","l","f","y","e","a","r","l","y">>,
      <<"s","e","m","i","-","a","n","n","u","a","l">>,
      <<"s","e","m","i"," ","a","n","n","u","a","l">> }
QuarterlyWords == { <<"q","u","a","r","t","e","r","l","y">> }
MonthlyWords   == { <<"m","o","n","t","h","l","y">> }
\* texts that name no supported mode
OtherWords ==
    { << >>, <<"s","i","n","g","l","e">>, <<"w","e","e","k","l","y">>,
      <<"o","n","e"," ","t","i","m","e">> }

Pad(s) == <<" ">> \o s \o <<" ">>

\* a word as written, upper-cased, title-cased, and each of these padded with blanks
Variants(words) ==
    UNION { { w, Upper(w), Title(w), Pad(w), Pad(Upper(w)), Pad(Title(w)) } : w \in words }

ModeTexts ==
    Variants(AnnualWords) \cup Variants(HalfYearlyWords) \cup Variants(QuarterlyWords)
        \cup Variants(MonthlyWords) \cup Variants(OtherWords)

(***************************************************************************)
(* Mode normalisation run: normalize_mode, then mode_months                *)
(***************************************************************************)
NoDate == None
NoRecord == None

\* the date logic and the calculator have not been started
IdleCore ==
    /\ mode_raw = None
    /\ mode_norm = None
    /\ months = 0
    /\ bi_date = NoDate
    /\ ptd = NoDate
    /\ mode = None
    /\ rcd = NoDate
    /\ extracted = NoRecord
    /\ outputs = NoRecord

coreVars == <<mode_raw, mode_norm, months, bi_date, ptd, mode, rcd, extracted, outputs>>

InitMode ==
    /\ pc = "mode_in"
    /\ mode_raw \in {None} \cup { Some(t) : t \in ModeTexts }
    /\ mode_norm = None
    /\ months = 0
    /\ bi_date = NoDate
    /\ ptd = NoDate
    /\ mode = None
    /\ rcd = NoDate
    /\ extracted = NoRecord
    /\ outputs = NoRecord
    /\ IdlePipe

NormalizeMode ==
    /\ pc = "mode_in"
    /\ mode_norm' = Some(normalize_mode(mode_raw))
    /\ pc' = "mode_normalized"
    /\ UNCHANGED <<mode_raw, months, bi_date, ptd, mode, rcd, extracted, outputs, pipeVars>>

ModeMonths ==
    /\ pc = "mode_normalized"
    /\ months' = mode_months(Val(mode_norm))
    /\ pc' = "mode_done"
    /\ UNCHANGED <<mode_raw, mode_norm, bi_date, ptd, mode, rcd, extracted, outputs, pipeVars>>

NextMode == NormalizeMode \/ ModeMonths

SpecMode == InitMode /\ [][NextMode]_vars

\* C6: after normalisation and the mode-to-months mapping, annual/yearly texts
\* give 12, half-yearly/semi-annual texts 6, quarterly texts 3, monthly texts 1,
\* in every case, spacing and hyphenation variant, and every unrecognised or
\* empty text gives 12.
C6_ModeToMonths ==
    pc = "mode_done" =>
        /\ (mode_raw = None => months = 12)
        /\ (mode_raw # None =>
             LET t == Val(mode_raw)
             IN  /\ (t \in Variants(AnnualWords)     => months = 12)
                 /\ (t \in Variants(HalfYearlyWords) => months = 6)
                 /\ (t \in Variants(QuarterlyWords)  => months = 3)
                 /\ (t \in Variants(MonthlyWords)    => months = 1)
                 /\ (t \in Variants(OtherWords)      => months = 12))

(***************************************************************************)
(* RCD derivation run: derive_rcd on a BI date, a PTD and a supported mode *)
(***************************************************************************)
FirstYear == 2022
YearSpan  == 3

\* days of the month that meet or miss the month ends
EdgeDays == {1, 28, 29, 30, 31}

DatesIn(years, monthSet) ==
    { Date(y, m, d) : y \in years, m \in monthSet, d \in EdgeDays } \cap
    { dt \in [y : years, m : monthSet, d : EdgeDays] : IsValidDate(dt.y, dt.m, dt.d) }

BiDates  == DatesIn((FirstYear + 1)..(FirstYear + 2), {1, 2, 3, 8, 12})
PtdDates == DatesIn(FirstYear..(FirstYear + YearSpan), 1..12)

SupportedModes == {Annual, HalfYearly, Quarterly, Monthly}

\* the interval of a supported mode, as the specification tabulates it
IntervalOf(norm) ==
    CASE norm = Annual     -> 12
      [] norm = HalfYearly -> 6
      [] norm = Quarterly  -> 3
      [] norm = Monthly    -> 1

InitRcd ==
    /\ pc = "rcd_in"
    /\ bi_date \in BiDates
    /\ ptd \in PtdDates
    /\ mode \in SupportedModes
    /\ rcd = NoDate
    /\ mode_raw = None
    /\ mode_norm = None
    /\ months = 0
    /\ extracted = NoRecord
    /\ outputs = NoRecord
    /\ IdlePipe

DeriveRcd ==
    /\ pc = "rcd_in"
    /\ rcd' = derive_rcd(bi_date, ptd, mode)
    /\ pc' = "rcd_done"
    /\ UNCHANGED <<mode_raw, mode_norm, months, bi_date, ptd, mode, extracted, outputs, pipeVars>>

NextRcd == DeriveRcd

SpecRcd == InitRcd /\ [][NextRcd]_vars

\* C1: for every BI date, PTD and supported mode, derive_rcd returns RCD >= BI
\* date, and RCD stepped back by one more mode interval is < BI date.
C1_RcdTightestFixedPoint ==
    pc = "rcd_done" =>
        /\ DateLE(bi_date, rcd)
        /\ DateLT(AddMonths(rcd, -IntervalOf(mode)), bi_date)

(***************************************************************************)
(* Fractions: the floats the calculator obtains by division                *)
(***************************************************************************)
RECURSIVE GCD(_, _)
GCD(a, b) == IF b = 0 THEN a ELSE GCD(b, a % b)

\* n / d with d > 0, in lowest terms
Frac(n, d) ==
    LET g == GCD(IF n < 0 THEN -n ELSE n, d)
    IN  [num |-> n \div g, den |-> d \div g]
FracEq(a, b) == a.num * b.den = b.num * a.den

(***************************************************************************)
(* core/date_logic.py: derive_rcd_and_rpu_dates                            *)
(* (imported by products/gis.py; its body is not part of the sources, so   *)
(* it follows section 4.4 of the specification)                            *)
(***************************************************************************)
derive_rcd_and_rpu_dates(bi, p, md) ==
    LET norm       == normalize_mode(Some(md))
        grace_days == IF norm = Monthly THEN 15 ELSE 30
    IN  [rcd        |-> derive_rcd(bi, p, norm),
         rpu_date   |-> add_grace(p, grace_days),
         grace_days |-> grace_days]

(***************************************************************************)
(* products/gis.py: helpers of the calculator                              *)
(***************************************************************************)
\* _safe_anniversary without the clamp: 29 February rolls over to 1 March
_safe_anniversary_RollOver(dt, years_to_add) ==
    LET yy == dt.y + years_to_add
    IN  IF IsValidDate(yy, dt.m, dt.d) THEN Date(yy, dt.m, dt.d) ELSE Date(yy, dt.m + 1, 1)

\* _safe_anniversary(d, years_to_add)
_safe_anniversary(dt, years_to_add) ==
    LET yy == dt.y + years_to_add
    IN  IF IsValidDate(yy, dt.m, dt.d) THEN Date(yy, dt.m, dt.d)
        ELSE IF dt.m = 2 /\ dt.d = 29 THEN Date(yy, 2, 28)
        ELSE IF IsValidDate(yy, dt.m, 31) THEN Date(yy, dt.m, 31)
        ELSE IF IsValidDate(yy, dt.m, 30) THEN Date(yy, dt.m, 30)
        ELSE IF IsValidDate(yy, dt.m, 29) THEN Date(yy, dt.m, 29)
        ELSE Date(yy, dt.m, 28)

\* _last_non_null that reads the last record only
_last_non_null_LastRow(schedule_rows, key) ==
    IF schedule_rows = << >> THEN None ELSE schedule_rows[Len(schedule_rows)][key]

\* _last_non_null(schedule_rows, key): scan from the last row backwards
RECURSIVE _last_non_null(_, _)
_last_non_null(schedule_rows, key) ==
    IF schedule_rows = << >> THEN None
    ELSE LET r == schedule_rows[Len(schedule_rows)]
         IN  IF r[key] # None THEN r[key]
             ELSE _last_non_null(SubSeq(schedule_rows, 1, Len(schedule_rows) - 1), key)

\* the loop of calculate that builds income_events, in schedule order
RECURSIVE BuildIncomeEvents(_, _)
BuildIncomeEvents(schedule_rows, rcd0) ==
    IF schedule_rows = << >> THEN << >>
    ELSE LET r    == Head(schedule_rows)
             rest == BuildIncomeEvents(Tail(schedule_rows), rcd0)
             inc  == IF r.income # None THEN Val(r.income) ELSE 0
         IN  IF r.policy_year = None THEN rest
             ELSE IF inc <= 0 THEN rest
             ELSE LET py == Val(r.policy_year)
                  IN  << [policy_year   |-> py,
                          calendar_year |-> rcd0.y + py - 1,
                          payout_date   |-> _safe_anniversary(rcd0, py),
                          amount        |-> inc] >> \o rest

\* list.sort(key=policy_year): stable, ascending
RECURSIVE InsertByPolicyYear(_, _)
InsertByPolicyYear(sorted, e) ==
    IF sorted = << >> THEN <<e>>
    ELSE IF sorted[Len(sorted)].policy_year <= e.policy_year THEN Append(sorted, e)
    ELSE Append(InsertByPolicyYear(SubSeq(sorted, 1, Len(sorted) - 1), e),
                sorted[Len(sorted)])

RECURSIVE SortByPolicyYear(_)
SortByPolicyYear(events) ==
    IF events = << >> THEN << >>
    ELSE InsertByPolicyYear(SortByPolicyYear(SubSeq(events, 1, Len(events) - 1)),
                            events[Len(events)])

\* sum(e["amount"] for e in events)
RECURSIVE SumAmounts(_)
SumAmounts(events) ==
    IF events = << >> THEN 0 ELSE Head(events).amount + SumAmounts(Tail(events))

\* [e for e in income_events if e["payout_date"] < rpu_date]
PaidBefore(income_events, rpu_date) ==
    LET Test(e) == DateLT(e.payout_date, rpu_date) IN SelectSeq(income_events, Test)

\* [e for e in income_events if e["payout_date"] >= rpu_date]
DueFrom_All(income_events, rpu_date) == income_events
DueFrom(income_events, rpu_date) ==
    LET Test(e) == DateLE(rpu_date, e.payout_date) IN SelectSeq(income_events, Test)

\* months_paid = max(0, (rpu_date.year - rcd.year) * 12 + (rpu_date.month - rcd.month))
MonthsPaid(rcd0, rpu_date) ==
    Max(0, (rpu_date.y - rcd0.y) * 12 + (rpu_date.m - rcd0.m))

\* R = months_paid / months_payable_total if months_payable_total > 0 else 0.0
RawFactor(months_paid, months_payable_total) ==
    IF months_payable_total > 0 THEN Frac(months_paid, months_payable_total) ELSE Frac(0, 1)

\* the clamp without its upper end
ClampFactor_NoUpper(f) == IF f.num < 0 THEN Frac(0, 1) ELSE f

\* R = max(0.0, min(1.0, R))
ClampFactor(f) ==
    IF f.num > f.den THEN Frac(1, 1) ELSE IF f.num < 0 THEN Frac(0, 1) ELSE f

\* simple proportional scaling, without the netting of the income already paid
NetIncome_Proportional(It, Ia, R) == Frac(It * R.num, R.den)

\* rpu_income_total = (It * R) - (Ia * (1.0 - R))
NetIncome(It, Ia, R) == Frac(It * R.num - Ia * (R.den - R.num), R.den)

\* the floor left out
FloorAtZero_Skipped(f) == f

\* if rpu_income_total < 0: rpu_income_total = 0.0
FloorAtZero(f) == IF f.num < 0 THEN Frac(0, 1) ELSE f

\* (float(v) * R) if v is not None else None
Scaled(v, R) == IF v = None THEN None ELSE Some(Frac(Val(v) * R.num, R.den))

(***************************************************************************)
(* products/gis.py: GISHandler.calculate                                   *)
(* The display-only parts of the result (income_segments, notes, the       *)
(* rounded copy of R, the premium echoed from the input) are left out.     *)
(***************************************************************************)
calculate(ex, p) ==
    LET dates  == derive_rcd_and_rpu_dates(ex.bi_generation_date, p, ex.mode)
        rcd0   == dates.rcd
        rpu_date == dates.rpu_date
        months_paid == MonthsPaid(rcd0, rpu_date)
        months_payable_total == IF ex.ppt_years # 0 THEN ex.ppt_years * 12 ELSE 0
        R      == ClampFactor(RawFactor(months_paid, months_payable_total))
        income_events == SortByPolicyYear(BuildIncomeEvents(ex.schedule_rows, rcd0))
        It     == SumAmounts(income_events)
        Ia     == SumAmounts(PaidBefore(income_events, rpu_date))
        rpu_income_total == FloorAtZero(NetIncome(It, Ia, R))
        income_due_full  == SumAmounts(DueFrom(income_events, rpu_date))
        maturity   == _last_non_null(ex.schedule_rows, "maturity")
        last_death == _last_non_null(ex.schedule_rows, "death")
    IN  [rcd                  |-> rcd0,
         ptd                  |-> p,
         rpu_date             |-> rpu_date,
         grace_period_days    |-> dates.grace_days,
         months_paid          |-> months_paid,
         months_payable_total |-> months_payable_total,
         rpu_factor           |-> R,
         fully_paid |->
            [total_income     |-> It,
             income_items     |-> income_events,
             maturity         |-> maturity,
             death_last_year  |-> last_death],
         reduced_paid_up |->
            [income_total_full           |-> It,
             income_already_paid         |-> Ia,
             income_due_full             |-> income_due_full,
             income_payable_after_rpu    |-> rpu_income_total,
             income_items_remaining_full |-> DueFrom(income_events, rpu_date),
             maturity                    |-> Scaled(maturity, R),
             death_scaled                |-> Scaled(last_death, R)]]

\* datetime.MAXYEAR: date(y, m, d) raises ValueError for a later year
MAXYEAR == 9999

\* _safe_anniversary raises: the ValueError of date(y, m, day) for a year out
\* of range is raised again by every date(y, ...) of the except branch
AnniversaryRaises(d, years_to_add) == d.y + years_to_add > MAXYEAR

\* calculate raises: the only statement of calculate that can raise on the
\* schedules of the model is the call of _safe_anniversary for a record
\* with a policy year and a positive income
CalculateRaises_NullIncome(ex, p) ==
    LET rcd0 == derive_rcd_and_rpu_dates(ex.bi_generation_date, p, ex.mode).rcd
    IN  \E i \in 1..Len(ex.schedule_rows) :
            LET r == ex.schedule_rows[i]
            IN  /\ r.policy_year # None
                /\ \/ r.income = None
                   \/ Val(r.income) > 0 /\ AnniversaryRaises(rcd0, Val(r.policy_year))
CalculateRaises(ex, p) ==
    LET rcd0 == derive_rcd_and_rpu_dates(ex.bi_generation_date, p, ex.mode).rcd
    IN  \E i \in 1..Len(ex.schedule_rows) :
            LET r == ex.schedule_rows[i]
            IN  /\ r.policy_year # None
                /\ r.income # None
                /\ Val(r.income) > 0
                /\ AnniversaryRaises(rcd0, Val(r.policy_year))

(***************************************************************************)
(* Calculator run: calculate on an ExtractedFields and a PTD               *)
(***************************************************************************)
MaxRows == 2

Row(py, inc, mat, dth) ==
    [policy_year |-> py, income |-> inc, maturity |-> mat, death |-> dth]

\* sparse schedule records: absent and zero incomes, absent benefits, a repeated
\* policy year and a record without policy year
RowChoices ==
    { Row(Some(1), Some(100), None,       Some(2000)),
      Row(Some(2), Some(0),   None,       None),
      Row(Some(1), Some(300), Some(900),  None),
      Row(Some(3), None,      None,       None),
      Row(Some(6), None,      Some(1000), None),
      Row(Some(6), Some(900), Some(1200), Some(3000)),
      Row(None,    Some(100), None,       None) }

RECURSIVE SeqsUpTo(_, _)
SeqsUpTo(S, n) ==
    IF n = 0 THEN { << >> }
    ELSE LET shorter == SeqsUpTo(S, n - 1)
         IN  shorter \cup { Append(q, x) : q \in shorter, x \in S }

\* the schedule of the end-to-end scenario: 20 policy years, income 50,000 in
\* the years 6 to 15 only, maturity in the last year
ScenarioSchedule ==
    [n \in 1..20 |->
        Row(Some(n),
            IF n \in 6..15 THEN Some(50000) ELSE IF n <= 5 THEN Some(0) ELSE None,
            IF n = 20 THEN Some(60000) ELSE None,
            Some(50000))]

\* a schedule whose last record carries a number that is no policy year
OverflowSchedule ==
    << Row(Some(1), None, None, None), Row(Some(20230331), Some(100), None, None) >>

Schedules == SeqsUpTo(RowChoices, MaxRows) \cup {ScenarioSchedule, OverflowSchedule}

CalcBiDates == { Date(2023, 3, 31), Date(2023, 1, 31), Date(2024, 2, 29) }
CalcPtds ==
    { Date(2022, 6, 30), Date(2023, 3, 31), Date(2024, 2, 29),
      Date(2025, 3, 31), Date(2026, 3, 31) }
\* the mode as the extractor hands it over (title-cased text)
CalcModes ==
    { Title(w) : w \in { <<"a","n","n","u","a","l">>, <<"q","u","a","r","t","e","r","l","y">>,
                         <<"h","a","l","f","-","y","e","a","r","l","y">>,
                         <<"m","o","n","t","h","l","y">>, <<"s","i","n","g","l","e">> } }
PptChoices == {0, 1, 10}

ExtractedChoices ==
    [bi_generation_date : CalcBiDates, mode : CalcModes,
     ppt_years : PptChoices, schedule_rows : Schedules]

Init ==
    /\ pc = "calc_in"
    /\ extracted \in ExtractedChoices
    /\ ptd \in CalcPtds
    /\ outputs = NoRecord
    /\ mode_raw = None
    /\ mode_norm = None
    /\ months = 0
    /\ bi_date = NoDate
    /\ mode = None
    /\ rcd = NoDate
    /\ IdlePipe

Calculate ==
    /\ pc = "calc_in"
    /\ IF CalculateRaises(extracted, ptd)
       THEN outputs' = NoRecord /\ pc' = "calc_raised"
       ELSE outputs' = calculate(extracted, ptd) /\ pc' = "calc_done"
    /\ UNCHANGED <<mode_raw, mode_norm, months, bi_date, ptd, mode, rcd, extracted, pipeVars>>

Next == Calculate

Spec == Init /\ [][Next]_vars

(***************************************************************************)
(* Properties of the calculator                                            *)
(***************************************************************************)
Done == pc = "calc_done"

\* sum of the amounts of the events at the indices in idx
RECURSIVE SumAt(_, _)
SumAt(events, idx) ==
    IF idx = {} THEN 0
    ELSE LET i == CHOOSE k \in idx : TRUE
         IN  events[i].amount + SumAt(events, idx \ {i})

\* C2: the RPU factor lies in [0, 1], equals months_paid / (ppt_years * 12)
\* clamped to that range, and is 0 when ppt_years is zero.
C2_FactorClamped ==
    Done =>
        LET R     == outputs.rpu_factor
            total == extracted.ppt_years * 12
        IN  /\ R.den > 0
            /\ 0 <= R.num
            /\ R.num <= R.den
            /\ IF extracted.ppt_years = 0
               THEN R.num = 0
               ELSE FracEq(R, Frac(Min(outputs.months_paid, total), total))

\* the clamp acts: more months paid than the premium-payment term holds
C2_Witness ==
    /\ Done
    /\ extracted.ppt_years > 0
    /\ outputs.months_paid > extracted.ppt_years * 12
    /\ outputs.rpu_factor.num = outputs.rpu_factor.den

\* C3: income_payable_after_rpu = max(0, It*R - Ia*(1 - R)), It the sum of all
\* income-event amounts, Ia the sum over the events due strictly before the RPU
\* effective date.
C3_NettingFormula ==
    Done =>
        LET ev   == outputs.fully_paid.income_items
            R    == outputs.rpu_factor
            It   == SumAt(ev, 1..Len(ev))
            Ia   == SumAt(ev, { i \in 1..Len(ev) : DateLT(ev[i].payout_date, outputs.rpu_date) })
            net  == It * R.num - Ia * (R.den - R.num)
            got  == outputs.reduced_paid_up.income_payable_after_rpu
        IN  /\ outputs.reduced_paid_up.income_total_full = It
            /\ outputs.reduced_paid_up.income_already_paid = Ia
            /\ FracEq(got, IF net >= 0 THEN Frac(net, R.den) ELSE Frac(0, 1))

\* both terms of the formula are at work and the result is positive
C3_Witness ==
    /\ Done
    /\ outputs.reduced_paid_up.income_already_paid > 0
    /\ outputs.rpu_factor.num > 0
    /\ outputs.rpu_factor.num < outputs.rpu_factor.den
    /\ outputs.reduced_paid_up.income_payable_after_rpu.num > 0

\* C4: the net reduced-paid-up income payable is never negative.
C4_NetIncomeNonNegative ==
    Done =>
        /\ outputs.reduced_paid_up.income_payable_after_rpu.den > 0
        /\ outputs.reduced_paid_up.income_payable_after_rpu.num >= 0

\* the already-paid income outweighs It*R, and the reported figure is 0
C4_Witness ==
    /\ Done
    /\ LET R  == outputs.rpu_factor
           It == outputs.reduced_paid_up.income_total_full
           Ia == outputs.reduced_paid_up.income_already_paid
       IN  It * R.num < Ia * (R.den - R.num)
    /\ outputs.reduced_paid_up.income_payable_after_rpu.num = 0

\* C5: BI date 2023-03-31, mode Annual, PPT 10, PTD 2025-03-31 and income
\* 50,000 in the policy years 6 to 15 only give RCD 2023-03-31, RPU effective
\* date 2025-04-30 (grace 30), months paid 24, R = 0.2, It = 500,000, Ia = 0 and
\* net payable 100,000.  (The policy term, 20, is not read by calculate.)
C5_EndToEndScenario ==
    ( /\ Done
      /\ extracted.bi_generation_date = Date(2023, 3, 31)
      /\ extracted.mode = Annual
      /\ extracted.ppt_years = 10
      /\ extracted.schedule_rows = ScenarioSchedule
      /\ ptd = Date(2025, 3, 31) ) =>
        /\ outputs.rcd = Date(2023, 3, 31)
        /\ outputs.rpu_date = Date(2025, 4, 30)
        /\ outputs.grace_period_days = 30
        /\ outputs.months_paid = 24
        /\ FracEq(outputs.rpu_factor, Frac(1, 5))
        /\ outputs.reduced_paid_up.income_total_full = 500000
        /\ outputs.reduced_paid_up.income_already_paid = 0
        /\ FracEq(outputs.reduced_paid_up.income_payable_after_rpu, Frac(100000, 1))

WholeMonthsBetween(a, b) ==
    IF DateLE(b, a) THEN 0
    ELSE (b.y - a.y) * 12 + (b.m - a.m) - (IF b.d < a.d THEN 1 ELSE 0)

\* C8: months_paid is the number of whole calendar months elapsed from RCD to
\* the RPU effective date (a month started but not completed, judged by the day
\* of the month, is not counted), 0 when the RPU effective date is not after
\* RCD, and never negative.
C8_WholeMonthsPaid ==
    Done =>
        /\ outputs.months_paid >= 0
        /\ outputs.months_paid = WholeMonthsBetween(outputs.rcd, outputs.rpu_date)

\* d moved by k whole years, the day clamped to the last day of the month
ClampedAnniversary(dt, k) ==
    Date(dt.y + k, dt.m, Min(dt.d, DaysInMonth(dt.y + k, dt.m)))

PositiveIncomeRows(rows) ==
    { i \in 1..Len(rows) :
        /\ rows[i].policy_year # None
        /\ rows[i].income # None
        /\ Val(rows[i].income) > 0 }

\* one income event per record with a positive income; the event of policy year
\* n has calendar year RCD.year + n - 1 and is due on RCD moved by n - lag years
EventsBuilt(lag) ==
    LET rows == extracted.schedule_rows
        ev   == outputs.fully_paid.income_items
    IN  /\ Len(ev) = Cardinality(PositiveIncomeRows(rows))
        /\ \A i \in PositiveIncomeRows(rows) :
             \E j \in 1..Len(ev) :
                /\ ev[j].policy_year = Val(rows[i].policy_year)
                /\ ev[j].amount = Val(rows[i].income)
        /\ \A j \in 1..Len(ev) :
             /\ ev[j].calendar_year = outputs.rcd.y + ev[j].policy_year - 1
             /\ ev[j].payout_date = ClampedAnniversary(outputs.rcd, ev[j].policy_year - lag)

LastValueOf(rows, cat) ==
    LET have == { i \in 1..Len(rows) : rows[i][cat] # None }
    IN  IF have = {} THEN None
        ELSE rows[CHOOSE i \in have : \A k \in have : k <= i][cat]

BenefitReported(cat, full, reduced) ==
    LET v == LastValueOf(extracted.schedule_rows, cat)
        R == outputs.rpu_factor
    IN  IF v = None
        THEN full = None /\ reduced = None
        ELSE /\ full = v
             /\ reduced # None
             /\ FracEq(Val(reduced), Frac(Val(v) * R.num, R.den))

\* C10: for maturity and for death, calculate takes the value of the last
\* schedule record whose value is non-null, reports it unscaled under fully_paid
\* and multiplied by R under reduced_paid_up, and reports null in both when no
\* record has a value.
C10_LastNonNullScaled ==
    Done =>
        /\ BenefitReported("maturity", outputs.fully_paid.maturity,
                           outputs.reduced_paid_up.maturity)
        /\ BenefitReported("death", outputs.fully_paid.death_last_year,
                           outputs.reduced_paid_up.death_scaled)

\* the last record has no maturity value, an earlier one has, and 0 < R < 1
C10_Witness ==
    /\ Done
    /\ Len(extracted.schedule_rows) >= 2
    /\ extracted.schedule_rows[Len(extracted.schedule_rows)].maturity = None
    /\ outputs.fully_paid.maturity # None
    /\ outputs.rpu_factor.num > 0
    /\ outputs.rpu_factor.num < outputs.rpu_factor.den

(***************************************************************************)
(* products/gis.py: _join_text, GISHandler.detect                          *)
(* products/registry.py: detect_product                                    *)
(*                                                                         *)
(* A confidence is kept in hundredths: 0.95 is 95, 0.70 is 70 and the      *)
(* starting value -1.0 of best_conf is -100.                               *)
(***************************************************************************)
\* sep.join(parts)
RECURSIVE Join(_, _)
Join(parts, sep) ==
    IF Len(parts) = 0 THEN << >>
    ELSE IF Len(parts) = 1 THEN parts[1]
    ELSE parts[1] \o sep \o Join(Tail(parts), sep)

\* "\n".join(parsed.text_by_page or [])
_join_text(p) == Join(p.text_by_page, <<"\n">>)

GISHandler == [product_id |-> "GIS"]

\* GISHandler.detect
GISHandler_detect(p) ==
    LET t == Lower(_join_text(p))
    IN  IF Contains(t, <<"g","u","a","r","a","n","t","e","e","d"," ","i","n","c","o","m","e"," ","s","t","a","r">>)
        THEN [conf |-> 95, dbg |-> "contains 'guaranteed income star'"]
        ELSE IF Contains(t, <<"g","u","a","r","a","n","t","e","e","d"," ","i","n","c","o","m","e">>) /\ Contains(t, <<"s","t","a","r">>)
        THEN [conf |-> 70, dbg |-> "contains 'guaranteed income' and 'star'"]
        ELSE [conf |-> 0, dbg |-> "no"]

\* h.detect(parsed): GISHandler computes it from the text; any other
\* ProductHandler of the registry answers with the confidence it carries
detect(h, p) ==
    IF h = GISHandler THEN GISHandler_detect(p)
    ELSE [conf |-> h.conf, dbg |-> h.product_id]

\* the test that replaces the best handler inside the loop
Better_OrEqual(conf, best_conf) == conf >= best_conf
Better(conf, best_conf) == conf > best_conf

\* the loop of detect_product over _HANDLERS[i..]
RECURSIVE DetectLoop(_, _, _, _)
DetectLoop(hs, i, p, best) ==
    IF i > Len(hs) THEN best
    ELSE LET r == detect(hs[i], p)
         IN  DetectLoop(hs, i + 1, p,
                 IF Better(r.conf, best.best_conf)
                 THEN [best |-> Some(hs[i]), best_conf |-> r.conf, best_dbg |-> r.dbg]
                 ELSE best)

\* `if best is None`
Unregistered_Falsy(b) == b.best = None \/ b.best_conf = 0
Unregistered(b) == b.best = None

\* detect_product: the triple it returns, or the RuntimeError it raises
detect_product(hs, p) ==
    LET b == DetectLoop(hs, 1, p, [best |-> None, best_conf |-> -100, best_dbg |-> "{}"])
    IN  IF Unregistered(b)
        THEN [raised |-> "RuntimeError", best |-> None, best_conf |-> -100, best_dbg |-> "{}"]
        ELSE [raised |-> "", best |-> b.best, best_conf |-> b.best_conf, best_dbg |-> b.best_dbg]

(***************************************************************************)
(* Detection run: detect_product over a registry and a parsed document     *)
(***************************************************************************)
MaxHandlers == 3

\* handlers other than GISHandler that a registry may hold
OtherHandlers == [product_id : {"H1", "H2"}, conf : {0, 70, 95}]

\* registries: up to MaxHandlers handlers, no product registered twice
Registries ==
    UNION { { hs \in [1..n -> {GISHandler} \cup OtherHandlers] :
                \A i, j \in 1..n : i # j => hs[i].product_id # hs[j].product_id }
            : n \in 0..MaxHandlers }

TextOnly(pages) == [text_by_page |-> pages, tables_by_page |-> [i \in 1..Len(pages) |-> << >>],
                    page_count |-> Len(pages)]

DetectDocs ==
    { TextOnly(<< <<"H","D","F","C"," ","L","i","f","e"," ","G","u","a","r","a","n","t","e","e","d"," ","I","n","c","o","m","e"," ","S","T","A","R">> >>),
      TextOnly(<< <<"G","u","a","r","a","n","t","e","e","d"," ","I","n","c","o","m","e">>, <<"S","t","a","r"," ","p","l","a","n">> >>),
      TextOnly(<< <<"T","e","r","m"," ","i","n","s","u","r","a","n","c","e"," ","p","l","a","n">> >>) }

InitDetect ==
    /\ pc = "detect_in"
    /\ handlers \in Registries
    /\ parsed \in DetectDocs
    /\ detected = << >>
    /\ pdf = << >>
    /\ table_calls = {}
    /\ today = << >>
    /\ runs = << >>
    /\ kv = << >>
    /\ cases = << >>
    /\ event_log = << >>
    /\ IdleCore

DetectProduct ==
    /\ pc = "detect_in"
    /\ detected' = detect_product(handlers, parsed)
    /\ pc' = IF detected'.raised = "" THEN "detect_done" ELSE "detect_raised"
    /\ UNCHANGED <<handlers, pdf, parsed, table_calls, today, runs, kv, cases, event_log, coreVars>>

NextDetect == DetectProduct

SpecDetect == InitDetect /\ [][NextDetect]_vars

\* the handlers of the registry whose confidence no other handler exceeds
TopHandlers == { i \in 1..Len(handlers) :
                   \A j \in 1..Len(handlers) :
                       detect(handlers[j], parsed).conf <= detect(handlers[i], parsed).conf }

\* the first-registered of them
FirstTop == CHOOSE i \in TopHandlers : \A j \in TopHandlers : i <= j

\* C14: detect_product returns the handler whose confidence is the maximum
\* over the whole registry, together with that handler's confidence and
\* diagnostics; among handlers of equal maximal confidence it returns the
\* one registered first.
C14_MaxConfidenceFirstWins ==
    pc = "detect_done" =>
        /\ TopHandlers # {}
        /\ detected.best = Some(handlers[FirstTop])
        /\ detected.best_conf = detect(handlers[FirstTop], parsed).conf
        /\ detected.best_dbg = detect(handlers[FirstTop], parsed).dbg

\* a registry where two handlers tie on the maximal confidence
C14_Witness ==
    /\ pc = "detect_done"
    /\ Cardinality(TopHandlers) >= 2
    /\ Len(handlers) > Cardinality(TopHandlers)
    /\ detected.best_conf > 0

\* C15: detect_product raises the configuration error exactly when the
\* registry is empty; a non-empty registry whose handlers all report
\* confidence 0 still yields a handler, with confidence 0.
C15_RaisesIffEmpty ==
    /\ pc = "detect_raised" => (Len(handlers) = 0 /\ detected.raised = "RuntimeError")
    /\ pc = "detect_done" => Len(handlers) > 0
    /\ (pc = "detect_done" /\ \A i \in 1..Len(handlers) : detect(handlers[i], parsed).conf = 0)
           => (detected.best = Some(handlers[1]) /\ detected.best_conf = 0)

\* a non-empty registry in which every handler reports confidence 0
C15_Witness ==
    /\ pc = "detect_done"
    /\ Len(handlers) >= 2
    /\ \A i \in 1..Len(handlers) : detect(handlers[i], parsed).conf = 0

(***************************************************************************)
(* core/pdf_reader.py: read_pdf                                            *)
(*                                                                         *)
(* The uploaded file is what the two PDF libraries make of it: per page    *)
(* the outcome of pdfplumber's extract_text and extract_tables and of      *)
(* pypdf's extract_text, and whether PdfReader accepts the file at all.    *)
(* A library call either raises or returns an Optional value.              *)
(***************************************************************************)
Returns(v) == [raises |-> FALSE, value |-> v]
Raises == [raises |-> TRUE, value |-> None]

\* `x or ""` on the Optional text a library call returned
OrEmpty(o) == IF o = None THEN << >> ELSE Val(o)

\* first pass: text_by_page, or "raised" when a call of extract_text raises
RECURSIVE FirstPass(_, _)
FirstPass(pages, i) ==
    IF i > Len(pages) THEN << >>
    ELSE IF pages[i].text.raises THEN <<"raised">>
    ELSE <<OrEmpty(pages[i].text.value)>> \o FirstPass(pages, i + 1)

TextRaised(texts) == Len(texts) > 0 /\ texts[Len(texts)] = "raised"

\* should_extract_tables for the page at position i (idx = i - 1)
should_extract_tables(texts, i) ==
    i \in {1, 2} \/ Contains(Lower(texts[i]), <<"p","o","l","i","c","y"," ","y","e","a","r">>)

\* second pass: tables_by_page
SecondPass(pages, texts) ==
    [i \in 1..Len(pages) |->
        IF should_extract_tables(texts, i)
        THEN IF pages[i].tables.raises THEN << >>
             ELSE IF pages[i].tables.value = None THEN << >> ELSE Val(pages[i].tables.value)
        ELSE << >>]

RECURSIVE TotalStripped(_)
TotalStripped(texts) ==
    IF Len(texts) = 0 THEN 0 ELSE Len(Strip(texts[1])) + TotalStripped(Tail(texts))

\* the length under which read_pdf falls back to pypdf
MinTextLength == 50

\* read_pdf: the ParsedPDF it returns or the exception that escapes it,
\* and the pages on which it called extract_tables
read_pdf(f) ==
    LET texts == FirstPass(f.pages, 1)
    IN  IF TextRaised(texts)
        THEN [raised |-> "Exception", parsed |-> None, table_calls |-> {}]
        ELSE LET tables == SecondPass(f.pages, texts)
                 calls  == { i \in 1..Len(f.pages) : should_extract_tables(texts, i) }
             IN  IF TotalStripped(texts) < MinTextLength
                 THEN IF ~f.reader_opens
                      THEN [raised |-> "Exception", parsed |-> None, table_calls |-> calls]
                      ELSE [raised |-> "",
                            parsed |-> Some([text_by_page |->
                                                 [i \in 1..Len(f.pages) |-> OrEmpty(f.pages[i].alt)],
                                             tables_by_page |-> tables,
                                             page_count |-> Len(f.pages)]),
                            table_calls |-> calls]
                 ELSE [raised |-> "",
                       parsed |-> Some([text_by_page |-> texts, tables_by_page |-> tables,
                                        page_count |-> Len(texts)]),
                       table_calls |-> calls]

(***************************************************************************)
(* Loader run: read_pdf over a document of up to MaxPages pages            *)
(***************************************************************************)
MaxPages == 4

MarkerText == <<"B","e","n","e","f","i","t"," ","s","c","h","e","d","u","l","e",":"," ","P","O","L","I","C","Y"," ","Y","E","A","R"," ","w","i","s","e"," ","g","u","a","r","a","n","t","e","e","d"," ","i","n","c","o","m","e"," ","a","n","d"," ","m","a","t","u","r","i","t","y">>
PlainText  == <<"P","r","e","m","i","u","m"," ","s","u","m","m","a","r","y"," ","a","n","d"," ","k","e","y"," ","f","e","a","t","u","r","e","s"," ","o","f"," ","t","h","e"," ","p","l","a","n",","," ","a","l","l"," ","p","a","g","e","s">>
ShortText  == <<"S","u","m","m","a","r","y">>

\* a table of one row and one cell
SomeTables == << << << Some(<<"x">>) >> >> >>

Page(text, tables, alt) == [text |-> text, tables |-> tables, alt |-> alt]

PageChoices ==
    { Page(Returns(Some(MarkerText)), Returns(Some(SomeTables)), Some(MarkerText)),
      Page(Returns(Some(PlainText)), Returns(Some(SomeTables)), Some(PlainText)),
      Page(Returns(Some(ShortText)), Returns(None), Some(ShortText)),
      Page(Returns(None), Returns(Some(SomeTables)), Some(ShortText)),
      Page(Raises, Returns(Some(SomeTables)), None),
      Page(Returns(Some(MarkerText)), Raises, Some(MarkerText)) }

Files ==
    [pages : UNION { [1..n -> PageChoices] : n \in 0..MaxPages }, reader_opens : BOOLEAN]

InitLoad ==
    /\ pc = "load_in"
    /\ pdf \in Files
    /\ parsed = << >>
    /\ table_calls = {}
    /\ handlers = << >>
    /\ detected = << >>
    /\ today = << >>
    /\ runs = << >>
    /\ kv = << >>
    /\ cases = << >>
    /\ event_log = << >>
    /\ IdleCore

ReadPdf ==
    /\ pc = "load_in"
    /\ LET r == read_pdf(pdf)
       IN  /\ parsed' = r.parsed
           /\ table_calls' = r.table_calls
           /\ pc' = IF r.raised = "" THEN "load_done" ELSE "load_raised"
    /\ UNCHANGED <<handlers, pdf, detected, today, runs, kv, cases, event_log, coreVars>>

NextLoad == ReadPdf

SpecLoad == InitLoad /\ [][NextLoad]_vars

\* the text pdfplumber gives for page i carries the schedule marker
HasMarker(i) ==
    /\ ~pdf.pages[i].text.raises
    /\ Contains(Lower(OrEmpty(pdf.pages[i].text.value)), <<"p","o","l","i","c","y"," ","y","e","a","r">>)

\* C16: tables are extracted for exactly the first two pages and every
\* page from the first page whose text carries the marker 'policy year'
\* through the last page, later pages without the marker included.
C16_TablesFromFirstMarkerOn ==
    pc = "load_done" =>
        table_calls = { i \in 1..Len(pdf.pages) :
                          i \in {1, 2} \/ \E j \in 1..i : HasMarker(j) }

\* C17: when text extraction fails on a page the loader still returns a
\* ParsedDocument with one text entry per page, the failed page's text
\* being empty.
C17_TextFaultTolerated ==
    (pc # "load_in" /\ pdf.reader_opens /\ \E i \in 1..Len(pdf.pages) : pdf.pages[i].text.raises)
        => /\ pc = "load_done"
           /\ Val(parsed).page_count = Len(pdf.pages)
           /\ Len(Val(parsed).text_by_page) = Len(pdf.pages)
           /\ \A i \in 1..Len(pdf.pages) :
                  pdf.pages[i].text.raises => Val(parsed).text_by_page[i] = << >>

(***************************************************************************)
(* products/gis.py: the text helpers of the field extractor                *)
(*                                                                         *)
(* A table cell is an Optional text.  The two non-ASCII characters the     *)
(* code names are written as the one-element tokens RupeeSign and EmDash.  *)
(***************************************************************************)
RupeeSign == "<rupee>"
EmDash == "<em-dash>"

Digits == <<"0","1","2","3","4","5","6","7","8","9">>
DigitOf == [c \in { Digits[i] : i \in 1..10 } |-> IndexIn(c, Digits) - 1]
IsDigit(c) == c \in DOMAIN DigitOf

\* s.startswith(prefix) at position i (1-based)
StartsAt(s, i, prefix) ==
    /\ i + Len(prefix) - 1 <= Len(s)
    /\ \A j \in 1..Len(prefix) : s[i + j - 1] = prefix[j]

\* s.replace(old, new): non-overlapping occurrences, left to right
RECURSIVE ReplaceFrom(_, _, _, _)
ReplaceFrom(s, i, old, new) ==
    IF i > Len(s) THEN << >>
    ELSE IF StartsAt(s, i, old) THEN new \o ReplaceFrom(s, i + Len(old), old, new)
    ELSE <<s[i]>> \o ReplaceFrom(s, i + 1, old, new)

Replace(s, old, new) == ReplaceFrom(s, 1, old, new)

\* " ".join(s.split()): every run of whitespace becomes one space and
\* the whitespace at both ends goes
Squeeze(s, i) ==
    LET kept == SelectSeq([j \in 1..Len(s) |-> j],
                          LAMBDA j : j >= i /\ (~IsSpace(s[j]) \/ (j > 1 /\ ~IsSpace(s[j - 1]))))
    IN  [n \in 1..Len(kept) |-> IF IsSpace(s[kept[n]]) THEN " " ELSE s[kept[n]]]

\* _clean_text: str(s or ""), newlines to spaces, whitespace collapsed
_clean_text(cell) ==
    LET s == OrEmpty(cell)
    IN  Strip(Squeeze([i \in 1..Len(s) |-> IF s[i] = "\n" THEN " " ELSE s[i]], 1))

\* _norm_key
_norm_key_KeepColon(cell) == Lower(_clean_text(Some(Replace(_clean_text(cell), <<" ", ":">>, <<":">>))))
_norm_key(cell) ==
    LET s1 == Replace(_clean_text(cell), <<" ", ":">>, <<":">>)
        s2 == IF Len(s1) > 0 /\ s1[Len(s1)] = ":" THEN SubSeq(s1, 1, Len(s1) - 1) ELSE s1
    IN  Lower(_clean_text(Some(s2)))

\* int() of a run of decimal digits
RECURSIVE DigitsValue(_)
DigitsValue(ds) ==
    IF Len(ds) = 0 THEN 0
    ELSE 10 * DigitsValue(SubSeq(ds, 1, Len(ds) - 1)) + DigitOf[ds[Len(ds)]]

\* re.search(r"\d+", s): the leftmost longest run of digits, None without one
FirstDigitRun(s) ==
    IF \A i \in 1..Len(s) : ~IsDigit(s[i]) THEN None
    ELSE LET first == CHOOSE i \in 1..Len(s) : IsDigit(s[i]) /\ \A j \in 1..(i - 1) : ~IsDigit(s[j])
             last  == CHOOSE i \in first..Len(s) :
                          /\ \A j \in first..i : IsDigit(s[j])
                          /\ (i = Len(s) \/ ~IsDigit(s[i + 1]))
         IN  Some(SubSeq(s, first, last))

\* _to_int
_to_int(cell) ==
    LET s == _clean_text(cell)
    IN  IF s = << >> THEN None
        ELSE LET m == FirstDigitRun(Replace(s, <<",">>, << >>))
             IN  IF m = None THEN None ELSE Some(DigitsValue(Val(m)))

\* float(s) for the texts that denote a whole number: an optional sign,
\* digits, an optional fraction of zeros; None stands for the ValueError
\* float raises on any other text of the model's documents
ParseFloat(s) ==
    LET neg  == Len(s) > 0 /\ s[1] = "-"
        body == IF Len(s) > 0 /\ s[1] \in {"-", "+"} THEN Tail(s) ELSE s
        dot  == IF \E i \in 1..Len(body) : body[i] = "."
                THEN CHOOSE i \in 1..Len(body) : body[i] = "." /\ \A j \in 1..(i - 1) : body[j] # "."
                ELSE Len(body) + 1
        whole == SubSeq(body, 1, dot - 1)
        frac  == SubSeq(body, dot + 1, Len(body))
    IN  IF /\ Len(whole) + Len(frac) > 0
           /\ \A i \in 1..Len(whole) : IsDigit(whole[i])
           /\ \A i \in 1..Len(frac) : frac[i] = "0"
        THEN Some(IF neg THEN 0 - DigitsValue(whole) ELSE DigitsValue(whole))
        ELSE None

\* _to_number
_to_number(cell) ==
    LET s == _clean_text(cell)
    IN  IF s = << >> \/ s = <<"-">> \/ s = <<EmDash>> THEN None
        ELSE ParseFloat(Strip(Replace(Replace(s, <<",">>, << >>), <<RupeeSign>>, << >>)))

\* _header_key
_header_key(h) ==
    LET t == Lower(_clean_text(Some(h)))
    IN  IF Contains(t, <<"p","o","l","i","c","y"," ","y","e","a","r">>) THEN "policy_year"
        ELSE IF Contains(t, <<"i","n","c","o","m","e">>) \/ Contains(t, <<"s","u","r","v","i","v","a","l">>)
                \/ Contains(t, <<"l","o","y","a","l","t","y"," ","a","d","d","i","t","i","o","n">>) THEN "income"
        ELSE IF Contains(t, <<"m","a","t","u","r","i","t","y">>) \/ Contains(t, <<"l","u","m","p"," ","s","u","m">>)
                \/ Contains(t, <<"l","u","m","p","s","u","m">>) THEN "maturity"
        ELSE IF Contains(t, <<"d","e","a","t","h">>) THEN "death"
        ELSE ""

\* _flatten_tables: the non-empty tables of all pages, in document order
RECURSIVE Concat(_)
Concat(seqs) == IF Len(seqs) = 0 THEN << >> ELSE seqs[1] \o Concat(Tail(seqs))

_flatten_tables(p) == SelectSeq(Concat(p.tables_by_page), LAMBDA tb : Len(tb) > 0)

(***************************************************************************)
(* core/pdf_reader.py: extract_bi_generation_date                          *)
(*                                                                         *)
(* The two regular expressions are matched as re.search matches them:      *)
(* case-insensitively, at the leftmost position where a label followed     *)
(* by a date matches.  A label is a sequence of words with optional        *)
(* whitespace between them.                                                *)
(***************************************************************************)
\* \s*: the first position from i on that holds no whitespace
RECURSIVE SkipWs(_, _)
SkipWs(t, i) == IF i <= Len(t) /\ IsSpace(t[i]) THEN SkipWs(t, i + 1) ELSE i

\* the words of a label from position i on: the position after the label, 0 on failure
RECURSIVE MatchWords(_, _, _)
MatchWords(t, i, words) ==
    IF Len(words) = 0 THEN i
    ELSE IF StartsAt(t, i, words[1])
         THEN IF Len(words) = 1 THEN i + Len(words[1])
              ELSE MatchWords(t, SkipWs(t, i + Len(words[1])), Tail(words))
         ELSE 0

CharAt(t, i) == IF i >= 1 /\ i <= Len(t) THEN t[i] ELSE ""
IsDateSep(c) == c \in {"/", "-", "."}

\* ([0-3]?\d) or ([01]?\d) followed by a separator, at position i:
\* [value, position after the separator], position 0 on failure
ShortNumber(t, i, firsts) ==
    IF CharAt(t, i) \in firsts /\ IsDigit(CharAt(t, i + 1)) /\ IsDateSep(CharAt(t, i + 2))
    THEN [value |-> DigitsValue(SubSeq(t, i, i + 1)), next |-> i + 3]
    ELSE IF IsDigit(CharAt(t, i)) /\ IsDateSep(CharAt(t, i + 1))
    THEN [value |-> DigitsValue(SubSeq(t, i, i)), next |-> i + 2]
    ELSE [value |-> 0, next |-> 0]

\* \s*[:\-]?\s*(dd)[/\-\.](mm)[/\-\.]((19|20)\d{2}) from position i on:
\* the three groups, None on failure
MatchDate(t, i) ==
    LET a  == SkipWs(t, i)
        b  == SkipWs(t, IF CharAt(t, a) \in {":", "-"} THEN a + 1 ELSE a)
        dd == ShortNumber(t, b, {"0", "1", "2", "3"})
        mm == ShortNumber(t, dd.next, {"0", "1"})
        y  == mm.next
    IN  IF dd.next = 0 THEN None
        ELSE IF mm.next = 0 THEN None
        ELSE IF /\ (StartsAt(t, y, <<"1", "9">>) \/ StartsAt(t, y, <<"2", "0">>))
                /\ IsDigit(CharAt(t, y + 2)) /\ IsDigit(CharAt(t, y + 3))
        THEN Some([dd |-> dd.value, mm |-> mm.value, yy |-> DigitsValue(SubSeq(t, y, y + 3))])
        ELSE None

\* one alternative of a pattern at position i
MatchAt(t, i, words) ==
    LET after == MatchWords(t, i, words)
    IN  IF after = 0 THEN None ELSE MatchDate(t, after)

\* re.search of a pattern given as its list of label alternatives
Search(t, labels) ==
    LET low  == Lower(t)
        hits == { i \in 1..Len(t) : \E k \in 1..Len(labels) : MatchAt(low, i, labels[k]) # None }
    IN  IF hits = {} THEN None
        ELSE LET i == CHOOSE x \in hits : \A z \in hits : x <= z
                 k == CHOOSE x \in 1..Len(labels) :
                          /\ MatchAt(low, i, labels[x]) # None
                          /\ \A z \in 1..(x - 1) : MatchAt(low, i, labels[z]) = None
             IN  MatchAt(low, i, labels[k])

QuoteDateLabels ==
    << << <<"b","i">>, <<"(","q","u","o","t","e",")">>, <<"d","a","t","e">> >>,
       << <<"q","u","o","t","e">>, <<"d","a","t","e">> >>,
       << <<"q","u","o","t","a","t","i","o","n">>, <<"d","a","t","e">> >>,
       << <<"d","a","t","e">>, <<"o","f">>, <<"q","u","o","t","e">> >> >>

BiDateLabels ==
    << << <<"b","i">>, <<"d","a","t","e">> >>,
       << <<"b","i">>, <<"g","e","n","e","r","a","t","i","o","n">>, <<"d","a","t","e">> >> >>

\* date(yy, mm, dd), None for the ValueError the code catches
MakeDate(g) == IF IsValidDate(g.yy, g.mm, g.dd) THEN Some(Date(g.yy, g.mm, g.dd)) ELSE None

\* extract_bi_generation_date
extract_bi_generation_date(page_text) ==
    LET t  == Replace(page_text, <<"\n">>, <<" ">>)
        m1 == Search(t, QuoteDateLabels)
        m2 == Search(t, BiDateLabels)
    IN  IF m1 # None THEN MakeDate(Val(m1))
        ELSE IF m2 # None THEN MakeDate(Val(m2))
        ELSE None

(***************************************************************************)
(* products/gis.py: GISHandler.extract and GISHandler._extract_schedule    *)
(*                                                                         *)
(* The dict kv is a function from normalized keys to values.  A schedule   *)
(* record is a record of four Optional values: a key the code never set    *)
(* and a key it set to None both read as None, as they do through          *)
(* dict.get.  Of the fields of ExtractedFields the model keeps the BI      *)
(* date, the proposer name, product name and UIN, the mode, the two terms  *)
(* and the schedule; the remaining fields are further lookups in kv.       *)
(***************************************************************************)
EmptyKv == [k \in {} |-> << >>]

\* kv[k] = v
Put_KeepFirst(m, k, v) == [x \in DOMAIN m \cup {k} |-> IF x \in DOMAIN m THEN m[x] ELSE v]
Put(m, k, v) == [x \in DOMAIN m \cup {k} |-> IF x = k THEN v ELSE m[x]]

\* kv.get(key)
Get(m, key) == IF key \in DOMAIN m THEN Some(m[key]) ELSE None

\* Python's `a or b` on Optional texts: None and "" are falsy
Truthy(o) == o # None /\ Val(o) # << >>
Or(a, b) == IF Truthy(a) THEN a ELSE b

\* the loop over the rows of one table that fills kv
RECURSIVE KvRows(_, _, _)
KvRows(tb, i, m) ==
    IF i > Len(tb) THEN m
    ELSE LET row == tb[i]
         IN  IF Len(row) < 2 THEN KvRows(tb, i + 1, m)
             ELSE LET k == _norm_key(row[1])
                      v == _clean_text(row[2])
                  IN  KvRows(tb, i + 1, IF k # << >> THEN Put(m, k, v) ELSE m)

\* the loop over all tables that fills kv
RECURSIVE KvTables(_, _, _)
KvTables(tables, i, m) ==
    IF i > Len(tables) THEN m ELSE KvTables(tables, i + 1, KvRows(tables[i], 1, m))

BuildKv(p) == KvTables(_flatten_tables(p), 1, EmptyKv)

\* " ".join(_clean_text(c) for c in row).lower()
RowText(row) == Lower(Join([c \in 1..Len(row) |-> _clean_text(row[c])], <<" ">>))

\* the header row: the first of the first six rows whose text holds
\* "policy" and "year"; 0 when there is none
IsHeaderRow(row) ==
    LET txt == RowText(row)
    IN  Contains(txt, <<"p","o","l","i","c","y">>) /\ Contains(txt, <<"y","e","a","r">>)

HeaderRowIdx(tb) ==
    LET found == { i \in 1..Min(6, Len(tb)) : IsHeaderRow(tb[i]) }
    IN  IF found = {} THEN 0 ELSE CHOOSE i \in found : \A j \in found : i <= j

\* merging one following row into the header texts, column by column
MergeRow(merged, r2) ==
    [col \in 1..Len(merged) |->
        IF col <= Len(r2) /\ _clean_text(r2[col]) # << >>
        THEN Strip(merged[col] \o <<" ">> \o _clean_text(r2[col]))
        ELSE merged[col]]

\* headers: the header row merged with the next two rows of the table
MergedHeaders_BaseOnly(tb, h) == [c \in 1..Len(tb[h]) |-> _clean_text(tb[h][c])]
MergedHeaders(tb, h) ==
    LET base == [c \in 1..Len(tb[h]) |-> _clean_text(tb[h][c])]
        m1   == IF h + 1 <= Len(tb) THEN MergeRow(base, tb[h + 1]) ELSE base
    IN  IF h + 2 <= Len(tb) THEN MergeRow(m1, tb[h + 2]) ELSE m1

\* header_keys
HeaderKeys(tb, h) ==
    LET headers == MergedHeaders(tb, h)
    IN  [c \in 1..Len(headers) |-> _header_key(headers[c])]

\* data_rows = tb[min(len(tb), header_row_idx + 3):]
DataRowsAfter(tb, h) == SubSeq(tb, h + 3, Len(tb))

\* row_obj.get(key): the cell of the last column classified as key
CellFor(keys, r, key) ==
    LET cols == { c \in 1..Min(Len(r), Len(keys)) : keys[c] = key }
    IN  IF cols = {} THEN None
        ELSE LET c == CHOOSE x \in cols : \A z \in cols : z <= x
             IN  IF key = "policy_year" THEN _to_int(r[c]) ELSE _to_number(r[c])

RowObj(keys, r) ==
    [policy_year |-> CellFor(keys, r, "policy_year"), income |-> CellFor(keys, r, "income"),
     maturity |-> CellFor(keys, r, "maturity"), death |-> CellFor(keys, r, "death")]

\* `if py_val:`
Accepted(py_val) == py_val # None /\ Val(py_val) # 0

\* `if pt_years and py_val >= int(pt_years)`
ReachedEnd_Beyond(py_val, pt_years) == pt_years # 0 /\ py_val > pt_years
ReachedEnd(py_val, pt_years) == pt_years # 0 /\ py_val >= pt_years

\* the loop over the data rows of one table
RECURSIVE ScanRows(_, _, _, _, _)
ScanRows(data_rows, i, keys, pt_years, rows_out) ==
    IF i > Len(data_rows) THEN [rows_out |-> rows_out, reached_end |-> FALSE]
    ELSE LET r == data_rows[i]
             row_obj == RowObj(keys, r)
         IN  IF Len(r) = 0 THEN ScanRows(data_rows, i + 1, keys, pt_years, rows_out)
             ELSE IF ~Accepted(row_obj.policy_year)
                  THEN ScanRows(data_rows, i + 1, keys, pt_years, rows_out)
             ELSE IF ReachedEnd(Val(row_obj.policy_year), pt_years)
                  THEN [rows_out |-> Append(rows_out, row_obj), reached_end |-> TRUE]
             ELSE ScanRows(data_rows, i + 1, keys, pt_years, Append(rows_out, row_obj))

\* the loop over all tables; header_keys is None until a header row was seen
RECURSIVE ScanTables(_, _, _, _, _)
ScanTables(tables, i, header_keys, pt_years, rows_out) ==
    IF i > Len(tables) THEN rows_out
    ELSE LET tb == tables[i]
             h  == HeaderRowIdx(tb)
         IN  IF Len(tb) < 2 THEN ScanTables(tables, i + 1, header_keys, pt_years, rows_out)
             ELSE IF h = 0 /\ header_keys = None
                  THEN ScanTables(tables, i + 1, header_keys, pt_years, rows_out)
             ELSE LET keys == IF h # 0 THEN HeaderKeys(tb, h) ELSE Val(header_keys)
                      data == IF h # 0 THEN DataRowsAfter(tb, h) ELSE tb
                      res  == ScanRows(data, 1, keys, pt_years, rows_out)
                  IN  IF res.reached_end THEN res.rows_out
                      ELSE ScanTables(tables, i + 1, Some(keys), pt_years, res.rows_out)

\* GISHandler._extract_schedule
_extract_schedule(p, pt_years) == ScanTables(_flatten_tables(p), 1, None, pt_years, << >>)

\* `_to_int(...) or 0`
OrZero(o) == IF o = None THEN 0 ELSE Val(o)

\* `extract_bi_generation_date(page1) or date.today()`
BiDateOr(found, clock) == IF found # None THEN found ELSE Some(clock)

\* GISHandler.extract after its loop has built the dict m, run when the
\* clock shows `clock`
ExtractWith(p, m, clock) ==
    LET page1 == IF Len(p.text_by_page) = 0 THEN << >> ELSE p.text_by_page[1]
        pt == OrZero(_to_int(Or(Get(m, <<"p","o","l","i","c","y"," ","t","e","r","m"," ","(","i","n"," ","y","e","a","r","s",")">>), Get(m, <<"p","o","l","i","c","y"," ","t","e","r","m">>))))
        ppt == OrZero(_to_int(Or(Get(m, <<"p","r","e","m","i","u","m"," ","p","a","y","m","e","n","t"," ","t","e","r","m"," ","(","i","n"," ","y","e","a","r","s",")">>),
                                 Get(m, <<"p","r","e","m","i","u","m"," ","p","a","y","m","e","n","t"," ","t","e","r","m">>))))
    IN  [product_name |-> Val(Or(Get(m, <<"n","a","m","e"," ","o","f"," ","t","h","e"," ","p","r","o","d","u","c","t">>),
                                 Some(<<"E","d","e","l","w","e","i","s","s"," ","T","o","k","i","o"," ","L","i","f","e","-"," ","G","u","a","r","a","n","t","e","e","d"," ","I","n","c","o","m","e"," ","S","T","A","R">>))),
         product_uin |-> Or(Get(m, <<"u","n","i","q","u","e"," ","i","d","e","n","t","i","f","i","c","a","t","i","o","n"," ","n","o",".">>), Get(m, <<"u","i","n">>)),
         bi_generation_date |-> Val(BiDateOr(extract_bi_generation_date(page1), clock)),
         proposer_name_transient |-> Get(m, <<"n","a","m","e"," ","o","f"," ","t","h","e"," ","p","r","o","s","p","e","c","t","/","p","o","l","i","c","y","h","o","l","d","e","r">>),
         mode |-> Title(Val(Or(Get(m, <<"m","o","d","e"," ","o","f"," ","p","a","y","m","e","n","t"," ","o","f"," ","p","r","e","m","i","u","m">>), Some(<<"A","n","n","u","a","l">>)))),
         policy_term_years |-> pt,
         ppt_years |-> ppt,
         schedule_rows |-> _extract_schedule(p, pt)]

\* GISHandler.extract
extract(p, clock) == ExtractWith(p, BuildKv(p), clock)

(***************************************************************************)
(* Extraction runs: GISHandler.extract on a parsed document                *)
(***************************************************************************)
\* the day the clock shows when a run starts
Day0 == Date(2024, 2, 28)

Extract ==
    /\ pc = "extract_in"
    /\ kv' = BuildKv(parsed)
    /\ runs' = Append(runs, [parsed |-> parsed, fields |-> ExtractWith(parsed, kv', today)])
    /\ pc' = "extract_done"
    /\ UNCHANGED <<handlers, pdf, parsed, table_calls, detected, today, cases, event_log, coreVars>>

InitExtract(docs) ==
    /\ pc = "extract_in"
    /\ parsed \in docs
    /\ today = Day0
    /\ runs = << >>
    /\ kv = << >>
    /\ handlers = << >>
    /\ pdf = << >>
    /\ table_calls = {}
    /\ detected = << >>
    /\ cases = << >>
    /\ event_log = << >>
    /\ IdleCore

(***************************************************************************)
(* Key/value run: documents of two pages, each holding one table of        *)
(* label/value rows                                                        *)
(***************************************************************************)
MaxKvRows == 3

KvRowChoices ==
    { << Some(<<"P","o","l","i","c","y"," ","T","e","r","m"," ","(","i","n"," ","y","e","a","r","s",")"," ",":">>), Some(<<"2","0">>) >>,
      << Some(<<"p","o","l","i","c","y"," "," ","t","e","r","m","\n","(","i","n"," ","y","e","a","r","s",")">>), Some(<<" ","1","0"," "," ","y","e","a","r","s">>), Some(<<"x">>) >>,
      << Some(<<"N","a","m","e"," ","o","f"," ","t","h","e"," ","P","r","o","s","p","e","c","t","/","P","o","l","i","c","y","h","o","l","d","e","r",":">>), Some(<<"M","r","."," ","R","a","v","i">>) >>,
      << Some(<<"N","a","m","e"," ","o","f"," ","t","h","e"," ","P","r","o","s","p","e","c","t","/","P","o","l","i","c","y","h","o","l","d","e","r">>) >>,
      << Some(<<" ",":"," ">>), Some(<<"1","5">>) >>,
      << None, Some(<<"7">>) >> }

KvDoc(t1, t2) ==
    [text_by_page |-> << << >>, << >> >>, tables_by_page |-> << <<t1>>, <<t2>> >>, page_count |-> 2]

\* the second table: empty, or one row
SecondTables ==
    { << >>,
      << << Some(<<"P","O","L","I","C","Y"," ","T","E","R","M"," ","(","i","n"," ","y","e","a","r","s",")">>),
            Some(<<"1","0"," ","y","e","a","r","s">>) >> >>,
      << << Some(<<"N","a","m","e"," ","o","f"," ","t","h","e"," ","P","r","o","s","p","e","c","t","/",
                   "P","o","l","i","c","y","h","o","l","d","e","r"," ",":">>), None >> >>,
      << << Some(<<"U","I","N">>) >> >> }

KvDocs == { KvDoc(t1, t2) : t1 \in SeqsUpTo(KvRowChoices, MaxKvRows), t2 \in SecondTables }

InitKv == InitExtract(KvDocs)

NextKv == Extract

SpecKv == InitKv /\ [][NextKv]_vars

\* all rows of the document in document order
AllRows == Concat(Concat(parsed.tables_by_page))

\* row i is a label/value row for key k
SetsKey(i, k) == Len(AllRows[i]) >= 2 /\ _norm_key(AllRows[i][1]) = k /\ k # << >>

KeysSet == { _norm_key(AllRows[i][1]) : i \in { j \in 1..Len(AllRows) : Len(AllRows[j]) >= 2 } }
              \ { << >> }

LastRowFor(k) == CHOOSE i \in 1..Len(AllRows) :
                     SetsKey(i, k) /\ \A j \in (i + 1)..Len(AllRows) : ~SetsKey(j, k)

\* C20: after key/value extraction the map holds exactly the normalized,
\* non-empty first cells of the rows with at least two cells, each mapped
\* to the cleaned second cell of the last such row in document order; rows
\* with fewer than two cells leave the map as it is.
C20_LastWriteWins ==
    pc = "extract_done" =>
        /\ DOMAIN kv = KeysSet
        /\ \A k \in KeysSet : kv[k] = _clean_text(AllRows[LastRowFor(k)][2])

\* one key set by rows of both tables with different values, and a
\* one-cell row after the last of them
C20_Witness ==
    /\ pc = "extract_done"
    /\ \E k \in KeysSet : \E i, j \in 1..Len(AllRows) :
           /\ i <= Len(parsed.tables_by_page[1][1]) /\ j > Len(parsed.tables_by_page[1][1])
           /\ SetsKey(i, k) /\ SetsKey(j, k)
           /\ _clean_text(AllRows[i][2]) # _clean_text(AllRows[j][2])
    /\ \E i \in 1..Len(AllRows) : Len(AllRows[i]) = 1

(***************************************************************************)
(* Schedule run: documents with a summary table on page 1, a benefit       *)
(* schedule table on page 2 and possibly a continuation table on page 3    *)
(***************************************************************************)
MaxDataRows == 3

\* the columns of the schedule table: policy year, income, death benefit
SingleHeader ==
    << << Some(<<"P","o","l","i","c","y"," ","Y","e","a","r">>), Some(<<"I","n","c","o","m","e"," ","B","e","n","e","f","i","t"," ","P","a","y","-","o","u","t"," ","(","R","s",".",")">>),
          Some(<<"G","u","a","r","a","n","t","e","e","d"," ","D","e","a","t","h"," ","B","e","n","e","f","i","t">>) >> >>

\* the same header split over three rows
SplitHeader ==
    << << Some(<<"P","o","l","i","c","y","\n","Y","e","a","r">>), Some(<<"I","n","c","o","m","e">>), Some(<<"G","u","a","r","a","n","t","e","e","d">>) >>,
       << Some(<< >>), Some(<<"B","e","n","e","f","i","t">>), Some(<<"D","e","a","t","h">>) >>,
       << None, Some(<<"P","a","y","-","o","u","t"," ","(","R","s",".",")">>), Some(<<"B","e","n","e","f","i","t">>) >> >>

NoHeader == << >>

HeaderForms == { SingleHeader, SplitHeader, NoHeader }

DataRowChoices ==
    { << Some(<<"1">>), Some(<<"0">>), Some(<<"5",",","0","0",",","0","0","0">>) >>,
      << Some(<<"3">>), Some(<<"5","0",",","0","0","0">>), Some(<<"5",",","0","0",",","0","0","0">>) >>,
      << Some(<<"3">>), Some(<<"6","0",",","0","0","0",".","0","0">>), None >>,
      << Some(<<"T","o","t","a","l">>), Some(<<"1",",","1","0",",","0","0","0">>) >> }

\* a table without header that continues the schedule on the next page,
\* with two rows or with the last row of the schedule only
ContinuationTables ==
    { << >>,
      << << Some(<<"4">>), Some(<<"5","0",",","0","0","0">>), Some(<<"9",",","0","0",",","0","0","0">>) >> >>,
      << << Some(<<"3">>), Some(<<"7","0",",","0","0","0">>), Some(<<"-">>) >>,
         << Some(<<"4">>), Some(<<"5","0",",","0","0","0">>), Some(<<"9",",","0","0",",","0","0","0">>) >> >> }

\* the summary table of page 1, with or without the policy term
SummaryTables ==
    { << << Some(<<"P","o","l","i","c","y"," ","T","e","r","m"," ","(","i","n"," ","y","e","a","r","s",")">>), Some(<<"3">>) >>,
         << Some(<<"P","r","e","m","i","u","m"," ","P","a","y","m","e","n","t"," ","T","e","r","m"," ","(","i","n"," ","y","e","a","r","s",")">>), Some(<<"2">>) >> >>,
      << << Some(<<"M","o","d","e"," ","o","f"," ","p","a","y","m","e","n","t"," ","o","f"," ","p","r","e","m","i","u","m">>), Some(<<"m","o","n","t","h","l","y">>) >>,
         << Some(<<"P","r","e","m","i","u","m"," ","P","a","y","m","e","n","t"," ","T","e","r","m"," ","(","i","n"," ","y","e","a","r","s",")">>), Some(<<"2">>) >> >> }

ScheduleDoc(summary, tb, cont) ==
    [text_by_page |-> << <<"B","I"," ","(","Q","u","o","t","e",")"," ","D","a","t","e"," ",":"," ","3","1","/","0","3","/","2","0","2","3">>, <<"P","o","l","i","c","y"," ","Y","e","a","r">>, << >> >>,
     tables_by_page |-> << <<summary>>, <<tb>>, <<cont>> >>,
     page_count |-> 3]

ScheduleDocs ==
    { ScheduleDoc(summary, form \o rows, cont) :
          summary \in SummaryTables, form \in HeaderForms,
          rows \in SeqsUpTo(DataRowChoices, MaxDataRows), cont \in ContinuationTables }

InitSchedule == InitExtract(ScheduleDocs)

NextSchedule == Extract

SpecSchedule == InitSchedule /\ [][NextSchedule]_vars

\* the schedule the run returned
ScheduleOut == runs[Len(runs)].fields.schedule_rows

\* C11: the policy years of an extracted schedule are pairwise distinct and
\* strictly increasing in extraction order (of two rows that claim the
\* same policy year only the first is kept).
C11_PolicyYearsStrictlyIncreasing ==
    pc = "extract_done" =>
        \A i, j \in 1..Len(ScheduleOut) :
            i < j => Val(ScheduleOut[i].policy_year) < Val(ScheduleOut[j].policy_year)

\* the schedule table of the document and its header row
ScheduleTable == parsed.tables_by_page[2][1]
HasSplitHeader == Len(ScheduleTable) >= 3 /\ SubSeq(ScheduleTable, 1, 3) = SplitHeader

\* the same table with the header written in one row
Unsplit(tb) == SingleHeader \o SubSeq(tb, 4, Len(tb))

\* C19: a header split over three rows ("Income", "Benefit", "Pay-out
\* (Rs.)") makes its column the income column, every column of the table
\* gets the role it gets under the one-row header "Income Benefit Pay-out
\* (Rs.)", and the records of the schedule carry that column as income.
C19_SplitHeaderClassifiedAsSingle ==
    (pc = "extract_done" /\ HasSplitHeader) =>
        /\ HeaderRowIdx(ScheduleTable) = 1
        /\ HeaderKeys(ScheduleTable, 1)[2] = "income"
        /\ HeaderKeys(ScheduleTable, 1) = HeaderKeys(Unsplit(ScheduleTable), 1)
        /\ \A n \in 1..Len(ScheduleOut) :
               \E r \in { ScheduleTable[k] : k \in 4..Len(ScheduleTable) }
                     \cup { parsed.tables_by_page[3][1][k] : k \in 1..Len(parsed.tables_by_page[3][1]) } :
                   /\ ScheduleOut[n].policy_year = _to_int(r[1])
                   /\ ScheduleOut[n].income = _to_number(r[2])
                   /\ ScheduleOut[n].death = (IF Len(r) >= 3 THEN _to_number(r[3]) ELSE None)
                   /\ ScheduleOut[n].maturity = None

\* a split header followed by data rows, one of them with a positive income
C19_Witness ==
    /\ pc = "extract_done"
    /\ HasSplitHeader
    /\ Len(ScheduleTable) = 3 + MaxDataRows
    /\ \E n \in 1..Len(ScheduleOut) :
           ScheduleOut[n].income # None /\ Val(ScheduleOut[n].income) > 0

(***************************************************************************)
(* Repeated runs: extract is run on one document after another while the   *)
(* clock may move on between the runs                                      *)
(***************************************************************************)
MaxRuns == 3
MaxDaysLater == 1

\* a one-page document with the given page text and a summary table
DatedDoc(pages) ==
    [text_by_page |-> pages,
     tables_by_page |->
         << << << << Some(<<"P","o","l","i","c","y"," ","T","e","r","m">>), Some(<<"5">>) >>,
                     << Some(<<"M","o","d","e"," ","o","f"," ","p","a","y","m","e","n","t"," ","o","f"," ","p","r","e","m","i","u","m">>), Some(<<"q","u","a","r","t","e","r","l","y">>) >> >> >> >>,
     page_count |-> Len(pages)]

RerunDocs ==
    { DatedDoc(<< <<"B","I"," ","(","Q","u","o","t","e",")"," ","D","a","t","e"," ",":"," ","3","1","/","0","3","/","2","0","2","3">> >>),
      DatedDoc(<< <<"Q","u","o","t","a","t","i","o","n"," ","D","a","t","e"," ","3","1",".","0","2",".","2","0","2","3">> >>),
      DatedDoc(<< <<"B","e","n","e","f","i","t"," ","I","l","l","u","s","t","r","a","t","i","o","n">> >>),
      DatedDoc(<< >>) }

InitRerun == InitExtract(RerunDocs)

\* the clock moves on by a day
Tick ==
    /\ pc \in {"extract_in", "extract_done"}
    /\ ToOrdinal(today) - ToOrdinal(Day0) < MaxDaysLater
    /\ today' = AddDays(today, 1)
    /\ UNCHANGED <<pc, handlers, pdf, parsed, table_calls, detected, runs, kv, cases, event_log, coreVars>>

\* the next document is handed to extract: the same one again, or another
Submit ==
    /\ pc = "extract_done"
    /\ Len(runs) < MaxRuns
    /\ parsed' \in RerunDocs
    /\ pc' = "extract_in"
    /\ UNCHANGED <<handlers, pdf, table_calls, detected, today, runs, kv, cases, event_log, coreVars>>

NextRerun == Extract \/ Tick \/ Submit

SpecRerun == InitRerun /\ [][NextRerun]_vars

\* C12: two runs of extract on the same ParsedDocument return the same
\* ExtractedFields in every field, whenever they run and whatever was
\* extracted in between.
C12_ExtractDeterministic ==
    \A i, j \in 1..Len(runs) :
        runs[i].parsed = runs[j].parsed => runs[i].fields = runs[j].fields

(***************************************************************************)
(* calculate on sparse schedules                                           *)
(***************************************************************************)
\* no record of the schedule carries a value under key
Absent(key) ==
    \A i \in 1..Len(extracted.schedule_rows) : extracted.schedule_rows[i][key] = None

\* C18: calculate never raises because a value is missing: an exception
\* of calculate is caused by a record that has a policy year and a positive
\* income; for a schedule without any income value (the empty schedule
\* included) the income totals are 0, and a benefit category no record
\* carries is null in the fully-paid and in the reduced paid-up result.
C18_SparseScheduleTolerated ==
    /\ pc = "calc_raised" =>
           \E i \in 1..Len(extracted.schedule_rows) :
               /\ extracted.schedule_rows[i].policy_year # None
               /\ extracted.schedule_rows[i].income # None
               /\ Val(extracted.schedule_rows[i].income) > 0
    /\ (pc # "calc_in" /\ Absent("income")) =>
           /\ pc = "calc_done"
           /\ outputs.fully_paid.total_income = 0
           /\ outputs.fully_paid.income_items = << >>
           /\ outputs.reduced_paid_up.income_total_full = 0
           /\ outputs.reduced_paid_up.income_already_paid = 0
           /\ outputs.reduced_paid_up.income_due_full = 0
           /\ outputs.reduced_paid_up.income_payable_after_rpu = Frac(0, 1)
    /\ (Done /\ Absent("maturity")) =>
           outputs.fully_paid.maturity = None /\ outputs.reduced_paid_up.maturity = None
    /\ (Done /\ Absent("death")) =>
           outputs.fully_paid.death_last_year = None /\ outputs.reduced_paid_up.death_scaled = None

\* a schedule whose records carry a policy year and nothing else
C18_Witness ==
    /\ Done
    /\ Len(extracted.schedule_rows) = MaxRows
    /\ Absent("income") /\ Absent("maturity") /\ Absent("death")
    /\ \A i \in 1..Len(extracted.schedule_rows) : extracted.schedule_rows[i].policy_year # None

(***************************************************************************)
(* app.py: make_case_id, save_case, main; core/event_logger.py: log_event  *)
(*                                                                         *)
(* A SHA-256 digest is the record [sha256 |-> what was hashed]: equal      *)
(* inputs give equal digests, and what is inside a digest is not readable  *)
(* from the stored value.  An uploaded file has an identity (its bytes), a *)
(* size and the pages the PDF libraries see.  The result cache in front    *)
(* of read_pdf returns what read_pdf returns and is not modelled.          *)
(***************************************************************************)
Sha256(x) == [sha256 |-> x]

\* str(n) for 0 <= n <= 9999, zero-padded to width digits
RECURSIVE IntText(_, _)
IntText(n, width) ==
    IF width <= 1 /\ n < 10 THEN <<Digits[n + 1]>>
    ELSE Append(IntText(n \div 10, width - 1), Digits[(n % 10) + 1])

\* str(d) of a date, also its JSON form: YYYY-MM-DD
IsoDate(d) == IntText(d.y, 4) \o <<"-">> \o IntText(d.m, 2) \o <<"-">> \o IntText(d.d, 2)

\* make_case_id
make_case_id(product_id, product_uin, bi, p, rcd0, md, pt, ppt, proposer) ==
    Sha256(Join(<< product_id, OrEmpty(product_uin), IsoDate(bi), IsoDate(p), IsoDate(rcd0),
                   md, IntText(pt, 1), IntText(ppt, 1), << >>,
                   Lower(Strip(OrEmpty(proposer))) >>, <<"|">>))

\* extracted.model_dump(mode="json"): every field, dates as ISO texts
ExtractedDump(ex) ==
    [product_name |-> ex.product_name,
     product_uin |-> ex.product_uin,
     bi_generation_date |-> IsoDate(ex.bi_generation_date),
     proposer_name_transient |-> ex.proposer_name_transient,
     mode |-> ex.mode,
     policy_term_years |-> ex.policy_term_years,
     ppt_years |-> ex.ppt_years,
     schedule_rows |-> ex.schedule_rows]

\* outputs.model_dump(mode="json")
OutputsDump(out) ==
    [out EXCEPT !.rcd = IsoDate(out.rcd), !.ptd = IsoDate(out.ptd), !.rpu_date = IsoDate(out.rpu_date),
                !.fully_paid.income_items =
                    [i \in 1..Len(@) |-> [@[i] EXCEPT !.payout_date = IsoDate(@)]],
                !.reduced_paid_up.income_items_remaining_full =
                    [i \in 1..Len(@) |-> [@[i] EXCEPT !.payout_date = IsoDate(@)]]]

\* save_case: INSERT ... ON CONFLICT (case_id) DO UPDATE
save_case_Dropped(table, row) == table
save_case(table, row) == Put(table, row.case_id, row)

\* log_event: INSERT INTO event_log
log_event(log, event_name, session_id, properties) ==
    Append(log, [event_name |-> event_name, session_id |-> session_id, case_id |-> None,
                 properties |-> properties])

SessionId == Sha256("session_state")

(***************************************************************************)
(* Requests: main, from the submitted form to the stored case              *)
(***************************************************************************)
MaxRequests == 2

CoverText == <<"E","d","e","l","w","e","i","s","s"," ","T","o","k","i","o"," ","L","i","f","e"," ","-"," ","G","u","a","r","a","n","t","e","e","d"," ","I","n","c","o","m","e"," ","S","T","A","R","\n","B","I"," ","(","Q","u","o","t","e",")"," ","D","a","t","e"," ",":"," ","3","1","/","0","3","/","2","0","2","3">>
OtherText == <<"T","e","r","m"," ","i","n","s","u","r","a","n","c","e"," ","p","l","a","n"," ","-"," ","b","e","n","e","f","i","t"," ","i","l","l","u","s","t","r","a","t","i","o","n"," ","f","o","r"," ","t","h","e"," ","p","r","o","p","o","s","e","r">>
ProposerName == <<"M","r","."," ","R","a","v","i"," ","K","u","m","a","r">>

SummaryRows ==
    << << Some(<<"M","o","d","e"," ","o","f"," ","p","a","y","m","e","n","t"," ","o","f"," ","p","r","e","m","i","u","m">>), Some(<<"a","n","n","u","a","l">>) >>,
       << Some(<<"P","o","l","i","c","y"," ","T","e","r","m"," ","(","i","n"," ","y","e","a","r","s",")">>), Some(<<"3">>) >>,
       << Some(<<"P","r","e","m","i","u","m"," ","P","a","y","m","e","n","t"," ","T","e","r","m"," ","(","i","n"," ","y","e","a","r","s",")">>), Some(<<"2">>) >> >>

NameRow == << Some(<<"N","a","m","e"," ","o","f"," ","t","h","e"," ","P","r","o","s","p","e","c","t","/","P","o","l","i","c","y","h","o","l","d","e","r"," ",":">>), Some(ProposerName) >>

GoodRows ==
    << << Some(<<"1">>), Some(<<"1","0","0">>), Some(<<"5",",","0","0","0">>) >>,
       << Some(<<"2">>), Some(<<"1","0","0">>), Some(<<"5",",","0","0","0">>) >>,
       << Some(<<"3">>), Some(<<"1","0","0">>), Some(<<"5",",","0","0","0">>) >> >>

BadRows == << << Some(<<"2","0","2","3","0","3","3","1">>), Some(<<"1","0","0">>), Some(<<"5",",","0","0","0">>) >> >>

GisPages(summary, rows) ==
    << Page(Returns(Some(CoverText)), Returns(Some(<<summary>>)), Some(CoverText)),
       Page(Returns(Some(<<"P","o","l","i","c","y"," ","Y","e","a","r">>)), Returns(Some(<<SplitHeader \o rows>>)), None) >>

UploadedFile(bytes, size, pages, opens) ==
    [bytes |-> bytes, size |-> size, pages |-> pages, reader_opens |-> opens]

\* a BI with and without the proposer's name, a BI whose schedule carries
\* a date in the policy-year column, a document of another product, a file
\* with a page whose text extraction raises, a scan without text layer
UploadedFiles ==
    { UploadedFile("bi-named", 4000, GisPages(<<NameRow>> \o SummaryRows, GoodRows), TRUE),
      UploadedFile("bi-unnamed", 3900, GisPages(SummaryRows, GoodRows), TRUE),
      UploadedFile("bi-bad-year", 4100, GisPages(<<NameRow>> \o SummaryRows, BadRows), TRUE),
      UploadedFile("other", 2000,
                   << Page(Returns(Some(OtherText)), Returns(Some(<< <<NameRow>> >>)), None) >>, TRUE),
      UploadedFile("faulty", 1000, << Page(Raises, Returns(None), None) >>, TRUE),
      UploadedFile("scan", 9000, << Page(Returns(None), Returns(None), None) >>, FALSE) }

MainPtds == { Date(2024, 3, 31), Date(2025, 3, 31) }

InitMain ==
    /\ pc = "main_new"
    /\ handlers = <<GISHandler>>
    /\ today = Day0
    /\ pdf = << >>
    /\ parsed = << >>
    /\ table_calls = {}
    /\ detected = << >>
    /\ runs = << >>
    /\ kv = << >>
    /\ cases = EmptyKv
    /\ event_log = << >>
    /\ IdleCore

Uploads == Len(SelectSeq(event_log, LAMBDA e : e.event_name = "pdf_uploaded"))

\* the first run of main in a session
SessionStart ==
    /\ pc = "main_new"
    /\ event_log' = log_event(event_log, "session_start", SessionId,
                              [version |-> "m1", device |-> "unknown"])
    /\ pc' = "main_idle"
    /\ UNCHANGED <<handlers, pdf, parsed, table_calls, detected, today, runs, kv, cases, coreVars>>

\* the form is submitted with a file and a PTD
SubmitForm ==
    /\ pc = "main_idle"
    /\ Uploads < MaxRequests
    /\ \E f \in UploadedFiles, p \in MainPtds :
           /\ pdf' = f
           /\ ptd' = p
           /\ event_log' = log_event(event_log, "pdf_uploaded", SessionId,
                                     [file_hash |-> Sha256(f.bytes), size_bytes |-> f.size,
                                      device |-> "unknown"])
    /\ pc' = "main_uploaded"
    /\ parsed' = << >> /\ table_calls' = {} /\ detected' = << >>
    /\ extracted' = NoRecord /\ outputs' = NoRecord
    /\ UNCHANGED <<handlers, today, runs, kv, cases, mode_raw, mode_norm, months, bi_date, mode, rcd>>

\* `except Exception as e`: the error is logged and the request ends
Failed(name) ==
    /\ event_log' = log_event(event_log, "error", SessionId, [error |-> name])
    /\ pc' = "main_idle"

ParsePdf ==
    /\ pc = "main_uploaded"
    /\ LET r == read_pdf(pdf)
       IN  IF r.raised # ""
           THEN Failed(r.raised) /\ UNCHANGED <<parsed, table_calls>>
           ELSE /\ parsed' = Val(r.parsed)
                /\ table_calls' = r.table_calls
                /\ event_log' = log_event(event_log, "pdf_parsed", SessionId,
                                          [pages |-> Val(r.parsed).page_count])
                /\ pc' = "main_parsed"
    /\ UNCHANGED <<handlers, pdf, detected, today, runs, kv, cases, coreVars>>

Detect ==
    /\ pc = "main_parsed"
    /\ LET r == detect_product(handlers, parsed)
       IN  IF r.raised # ""
           THEN Failed(r.raised) /\ UNCHANGED detected
           ELSE /\ detected' = r
                /\ event_log' = log_event(event_log, "product_detected", SessionId,
                                          [product_id |-> Val(r.best).product_id,
                                           confidence |-> r.best_conf, dbg |-> r.best_dbg])
                /\ pc' = "main_detected"
    /\ UNCHANGED <<handlers, pdf, parsed, table_calls, today, runs, kv, cases, coreVars>>

\* extracted = handler.extract(parsed)
ExtractFields ==
    /\ pc = "main_detected"
    /\ extracted' = extract(parsed, today)
    /\ pc' = "main_extracted"
    /\ UNCHANGED <<pipeVars, mode_raw, mode_norm, months, bi_date, ptd, mode, rcd, outputs>>

\* the case id of the request, from the extracted fields and the outputs
CaseId(ex, p, out) ==
    make_case_id(<<"G","I","S">>, ex.product_uin, ex.bi_generation_date, p, out.rcd, ex.mode,
                 ex.policy_term_years, ex.ppt_years, ex.proposer_name_transient)

\* calculate, make_case_id and save_case
Generate ==
    /\ pc = "main_extracted"
    /\ IF CalculateRaises(extracted, ptd)
       THEN Failed("ValueError") /\ UNCHANGED <<outputs, cases>>
       ELSE /\ outputs' = calculate(extracted, ptd)
            /\ cases' = save_case(cases,
                    [case_id |-> CaseId(extracted, ptd, outputs'), session_id |-> SessionId,
                     product_id |-> Val(detected.best).product_id,
                     product_confidence |-> detected.best_conf,
                     bi_date |-> extracted.bi_generation_date, ptd |-> ptd,
                     rcd |-> outputs'.rcd, rpu_date |-> outputs'.rpu_date,
                     mode |-> extracted.mode, file_hash |-> Sha256(pdf.bytes),
                     extracted |-> ExtractedDump(extracted),
                     outputs |-> OutputsDump(outputs')])
            /\ pc' = "main_saved"
            /\ UNCHANGED event_log
    /\ UNCHANGED <<handlers, pdf, parsed, table_calls, detected, today, runs, kv,
                   mode_raw, mode_norm, months, bi_date, ptd, mode, rcd, extracted>>

\* log_event("output_generated", ...) after save_case has returned
LogOutput ==
    /\ pc = "main_saved"
    /\ event_log' = log_event(event_log, "output_generated", SessionId,
                              [case_id |-> CaseId(extracted, ptd, outputs),
                               product_id |-> Val(detected.best).product_id])
    /\ pc' = "main_idle"
    /\ UNCHANGED <<handlers, pdf, parsed, table_calls, detected, today, runs, kv, cases, coreVars>>

NextMain ==
    SessionStart \/ SubmitForm \/ ParsePdf \/ Detect \/ ExtractFields \/ Generate \/ LogOutput

SpecMain == InitMain /\ [][NextMain]_vars

\* the proposer name the extractor read from the document of a stored case
\* appears in the row as clear text
NameInClear(row) ==
    /\ row.extracted.proposer_name_transient # None
    /\ Val(row.extracted.proposer_name_transient) # << >>

\* an event carries the extracted fields or the proposer name among its
\* properties
EventCarriesName(e) ==
    DOMAIN e.properties \cap {"extracted", "proposer_name", "proposer_name_transient"} # {}

\* C13: no durable write carries the proposer name in clear: neither a
\* case row (its extracted-fields blob included) nor a row of the event log.
C13_NoProposerNameStored ==
    /\ \A id \in DOMAIN cases : ~NameInClear(cases[id])
    /\ \A i \in 1..Len(event_log) : ~EventCarriesName(event_log[i])

(***************************************************************************)
(* derive_rcd against the candidates PTD - k * mode_months                 *)
(***************************************************************************)
\* PTD moved back k intervals in one step, the day clamped once
RcdCandidate(k) == AddMonths(ptd, -(k * mode_months(mode)))

\* no candidate beyond this index is on or after the BI date
LastCandidate == (ptd.y - bi_date.y + 1) * 12

\* C21: whenever PTD >= BI date, derive_rcd returns the smallest date that
\* is >= BI date among the candidates PTD - k * mode_months, k = 0, 1, 2, ...
C21_RcdSmallestCandidate ==
    (pc = "rcd_done" /\ DateLE(bi_date, ptd)) =>
        \E k \in 0..LastCandidate :
            /\ rcd = RcdCandidate(k)
            /\ DateLE(bi_date, rcd)
            /\ \A j \in 0..LastCandidate :
                   DateLE(bi_date, RcdCandidate(j)) => DateLE(rcd, RcdCandidate(j))

(***************************************************************************)
(* Schedule run: the rows after a one-row header, the policy-term bound    *)
(* and tables without a header                                             *)
(***************************************************************************)
\* the policy term the run read from the summary table (0: unknown)
PolicyTerm == runs[Len(runs)].fields.policy_term_years

HasSingleHeader ==
    /\ Len(ScheduleTable) >= 1
    /\ SubSeq(ScheduleTable, 1, 1) = SingleHeader
    /\ \A k \in 2..Len(ScheduleTable) : ~IsHeaderRow(ScheduleTable[k])

\* row k of the schedule table holds a valid positive policy year and no
\* earlier row of the table has reached the policy term
WithinTerm(k) ==
    /\ Accepted(_to_int(ScheduleTable[k][1]))
    /\ \A j \in 2..(k - 1) :
           ~(/\ Accepted(_to_int(ScheduleTable[j][1]))
             /\ ReachedEnd(Val(_to_int(ScheduleTable[j][1])), PolicyTerm))

\* C22: under a header of one row every following row with a valid positive
\* policy year, up to the policy-term bound, becomes a schedule record, the
\* first and the second row after the header included.
C22_RowsAfterSingleHeaderKept ==
    (pc = "extract_done" /\ HasSingleHeader) =>
        \A k \in 2..Len(ScheduleTable) :
            WithinTerm(k) =>
                \E n \in 1..Len(ScheduleOut) :
                    /\ ScheduleOut[n].policy_year = _to_int(ScheduleTable[k][1])
                    /\ ScheduleOut[n].income = _to_number(ScheduleTable[k][2])

\* the schedule the same document gives when the policy term is unknown
UnboundedScan == _extract_schedule(parsed, 0)

\* C23: with a known policy term the schedule ends with the first accepted
\* record whose policy year is >= the term: the schedule is the scan of all
\* tables cut after that record, so no later row of the table and no row of
\* a later table is added.
C23_StopsAtPolicyTerm ==
    (pc = "extract_done" /\ PolicyTerm > 0) =>
        \A full \in {UnboundedScan} :
            /\ \A n \in 1..(Len(ScheduleOut) - 1) :
                   Val(ScheduleOut[n].policy_year) < PolicyTerm
            /\ Len(ScheduleOut) <= Len(full)
            /\ ScheduleOut = SubSeq(full, 1, Len(ScheduleOut))
            /\ Len(ScheduleOut) < Len(full) =>
                   /\ Len(ScheduleOut) >= 1
                   /\ Val(ScheduleOut[Len(ScheduleOut)].policy_year) >= PolicyTerm

\* the term is reached in the schedule table and rows of that table and
\* of the continuation table are left out
C23_Witness ==
    /\ pc = "extract_done"
    /\ PolicyTerm > 0
    /\ Len(ScheduleOut) >= 2
    /\ Len(UnboundedScan) >= Len(ScheduleOut) + 2
    /\ Val(ScheduleOut[Len(ScheduleOut)].policy_year) = PolicyTerm

\* the tables of the document in the order of the scan
Tables == _flatten_tables(parsed)

HeaderBearing(tb) == HeaderRowIdx(tb) # 0

\* the most recent header-bearing table before table i (0: there is none)
LastHeaderBefore(i) ==
    LET before == { j \in 1..(i - 1) : HeaderBearing(Tables[j]) }
    IN  IF before = {} THEN 0 ELSE CHOOSE j \in before : \A z \in before : z <= j

\* the column roles of a header-bearing table
RolesOf(tb) == HeaderKeys(tb, HeaderRowIdx(tb))

\* the document without the tables that precede its first header-bearing
\* table
FromFirstHeader ==
    LET first == { j \in 1..Len(Tables) :
                       HeaderBearing(Tables[j]) /\ LastHeaderBefore(j) = 0 }
        kept  == IF first = {} THEN << >>
                 ELSE SubSeq(Tables, CHOOSE j \in first : TRUE, Len(Tables))
    IN  [parsed EXCEPT !.tables_by_page = <<kept>>]

\* C24: a table without header row contributes no record when no
\* header-bearing table precedes it; otherwise (the policy term being
\* unknown, so that the scan does not stop) every row of it whose
\* policy-year column, by the column roles of the most recent header-bearing
\* table, yields a positive integer is a record read with those roles; and
\* every schedule record has policy_year >= 1.
C24_HeaderlessTablesReuseLastHeader ==
    pc = "extract_done" =>
        /\ \A n \in 1..Len(ScheduleOut) :
               ScheduleOut[n].policy_year # None /\ Val(ScheduleOut[n].policy_year) >= 1
        /\ ScheduleOut = _extract_schedule(FromFirstHeader, PolicyTerm)
        /\ PolicyTerm = 0 =>
               \A i \in 1..Len(Tables) :
                   (~HeaderBearing(Tables[i]) /\ LastHeaderBefore(i) # 0) =>
                       LET roles == RolesOf(Tables[LastHeaderBefore(i)])
                       IN  \A k \in 1..Len(Tables[i]) :
                               Accepted(RowObj(roles, Tables[i][k]).policy_year) =>
                                   \E n \in 1..Len(ScheduleOut) :
                                       ScheduleOut[n] = RowObj(roles, Tables[i][k])

(***************************************************************************)
(* Calculator run: the income events on either side of the RPU date        *)
(***************************************************************************)
\* the indices of the income events due on or after the RPU effective date
DueIdx ==
    { i \in 1..Len(outputs.fully_paid.income_items) :
          ~DateLT(outputs.fully_paid.income_items[i].payout_date, outputs.rpu_date) }

\* C25: in every output of calculate income_already_paid + income_due_full
\* = income_total_full, income_due_full is the sum of the events due on or
\* after the RPU effective date, and income_items_remaining_full holds
\* exactly those events, in their order.
C25_IncomePartitionedByRpuDate ==
    Done =>
        LET ev  == outputs.fully_paid.income_items
            rpu == outputs.reduced_paid_up
            rem == rpu.income_items_remaining_full
        IN  /\ rpu.income_already_paid + rpu.income_due_full = rpu.income_total_full
            /\ rpu.income_due_full = SumAt(ev, DueIdx)
            /\ rpu.income_due_full = SumAt(rem, 1..Len(rem))
            /\ Len(rem) = Cardinality(DueIdx)
            /\ \A n \in 1..Len(rem) :
                   \E i \in DueIdx :
                       /\ rem[n] = ev[i]
                       /\ Cardinality({ j \in DueIdx : j <= i }) = n

\* events on both sides of the RPU effective date
C25_Witness ==
    /\ Done
    /\ outputs.reduced_paid_up.income_already_paid > 0
    /\ outputs.reduced_paid_up.income_due_full > 0
    /\ Len(outputs.reduced_paid_up.income_items_remaining_full) >= 1
    /\ Len(outputs.reduced_paid_up.income_items_remaining_full)
           < Len(outputs.fully_paid.income_items)

(***************************************************************************)
(* Requests: the order of the events and of the case row                   *)
(***************************************************************************)
EventName(i) == event_log[i].event_name

\* the last n event names of the log
LastEvents(n) ==
    IF Len(event_log) < n THEN << >>
    ELSE [k \in 1..n |-> EventName(Len(event_log) - n + k)]

\* each event of a request follows the event of the step before it, and a
\* request begins only when the request before it has ended
EventsInOrder ==
    \A i \in 1..Len(event_log) :
        /\ EventName(i) = "pdf_uploaded" =>
               i > 1 /\ EventName(i - 1) \in {"session_start", "error", "output_generated"}
        /\ EventName(i) = "pdf_parsed" => i > 1 /\ EventName(i - 1) = "pdf_uploaded"
        /\ EventName(i) = "product_detected" => i > 1 /\ EventName(i - 1) = "pdf_parsed"
        /\ EventName(i) = "output_generated" => i > 1 /\ EventName(i - 1) = "product_detected"

\* the case row an output_generated event names has been saved
SavedWhenLogged ==
    \A i \in 1..Len(event_log) :
        EventName(i) = "output_generated" => event_log[i].properties.case_id \in DOMAIN cases

\* a request that has ended has logged output_generated or an error
EndsWithOutputOrError ==
    (pc = "main_idle" /\ Len(event_log) > 1) =>
        EventName(Len(event_log)) \in {"error", "output_generated"}

\* one step of main
StepInOrder ==
    /\ (cases' # cases \/ pc' = "main_saved") =>
           /\ pc = "main_extracted"
           /\ ~CalculateRaises(extracted, ptd)
           /\ LastEvents(3) = <<"pdf_uploaded", "pdf_parsed", "product_detected">>
           /\ event_log' = event_log
    /\ (Len(event_log') > Len(event_log)
            /\ event_log'[Len(event_log')].event_name = "output_generated") =>
           /\ pc = "main_saved"
           /\ cases' = cases
           /\ event_log'[Len(event_log')].properties.case_id \in DOMAIN cases
    /\ (pc \in {"main_uploaded", "main_parsed", "main_detected", "main_extracted"}
            /\ pc' = "main_idle") =>
           /\ cases' = cases
           /\ Len(event_log') = Len(event_log) + 1
           /\ event_log'[Len(event_log')].event_name = "error"

\* C26: within a request the events are logged in the order pdf_uploaded,
\* pdf_parsed, product_detected, output_generated; the case row is written
\* only after parse, detect, extract and calculate have completed without
\* raising, and output_generated is logged only after the case row has been
\* saved; a step that raises writes no case row and logs an error, and the
\* request ends without output_generated.
C26_EventsAndCaseRowInOrder ==
    /\ [](EventsInOrder /\ SavedWhenLogged /\ EndsWithOutputOrError)
    /\ [][StepInOrder]_vars

\* a request that failed in calculate, then a request that was saved and
\* logged
C26_Witness ==
    /\ pc = "main_idle"
    /\ Cardinality(DOMAIN cases) = 1
    /\ LastEvents(8) = <<"pdf_uploaded", "pdf_parsed", "product_detected", "error",
                         "pdf_uploaded", "pdf_parsed", "product_detected", "output_generated">>

====
